---- MODULE Spec2Model ----
(***************************************************************************)
(* A model of the CPOG proof checker (src/cpog/checker/cpog-check.c):      *)
(* the clause store, the literal set, the RUP engine, the POG node store,  *)
(* the CPOG command handlers, the end-of-file root check and the reverse   *)
(* implication (implicit deletion) of the input clauses.                   *)
(*                                                                         *)
(* Handlers are pure operators from a record of the program's globals to   *)
(* the record after the call.  err_printf (which exits) is the field       *)
(* "error" becoming non-empty: the globals then keep what the handler had  *)
(* written before it failed.                                               *)
(***************************************************************************)
EXTENDS Integers, Sequences, FiniteSets, TLC

VARIABLES
    pc,                      \* position of run(): which phase comes next
    error,                   \* "" or the function whose err_printf ended the run
    banner,                  \* verdict line printed by run()
    check_add, check_delete, weak_mode, use_explicit_deletion,
    skipping_rup, thread_limit, is_pkc, show_variables,
    input_variable_count, input_clause_count, variable_limit,
    lset_generation, lset_array,
    clause_blocks, chunk_set, chunk_used, clause_last_id, clause_count,
    node_list, node_count,
    declared_root, root_clause_added,
    declared_unsatisfiable, proved_unsatisfiable,
    explicit_deletion_count, implicit_deletion_count,
    neg_fanouts, pos_fanouts,
    clause_queue, processed_count, prop,
    line_count,              \* lines of the CPOG file consumed
    last_cmd,                \* the command line just consumed by cpog_read
    rup_steps,               \* hints consumed by the most recent rup_run
    explicit_deleted,        \* input clause ids removed by a completed d command
    conflict_cids,           \* input clause ids for which rup_run_input found conflict
    stored,                  \* what finish_clause was called with: id, literals, type
    deleted_ids,             \* ids of the slots clause_delete has marked
    threading,               \* the build's THREADING macro
    queue_lock,              \* 0, or the thread holding the mutex queue_lock
    print_lock,              \* 0, or the thread holding the mutex print_lock
    threads,                 \* the deletion threads: position, propagator, locals
    deletion_start,          \* the globals when run_deletion was entered, or <<>>
    cnf_weights,             \* the wmc header and the weight lines of the CNF file
    ring_value,              \* ring_value of the nodes, by index; NULL beyond its length
    regular_count,           \* the regular model count written by run(), if valid
    weighted_count           \* the weighted model count written by run(), if valid

vars == << pc, error, banner, check_add, check_delete, weak_mode,
           use_explicit_deletion, skipping_rup, thread_limit, is_pkc,
           show_variables, input_variable_count, input_clause_count,
           variable_limit, lset_generation, lset_array, clause_blocks,
           chunk_set, chunk_used, clause_last_id, clause_count, node_list,
           node_count, declared_root, root_clause_added,
           declared_unsatisfiable, proved_unsatisfiable,
           explicit_deletion_count, implicit_deletion_count, neg_fanouts,
           pos_fanouts, clause_queue, processed_count, prop, line_count,
           last_cmd, rup_steps, explicit_deleted, conflict_cids, stored,
           deleted_ids, threading, queue_lock, print_lock, threads, deletion_start,
           cnf_weights, ring_value, regular_count, weighted_count >>

options == << check_add, check_delete, weak_mode, use_explicit_deletion,
              skipping_rup, thread_limit, is_pkc, show_variables, threading >>

thread_vars == << queue_lock, print_lock, threads >>

\* what only the counting after the check writes
count_vars == << ring_value, regular_count, weighted_count >>

(***************************************************************************)
(* Macro parameters and fixed globals                                      *)
(***************************************************************************)
MIN_SIZE == 10
MAX_GAP == 10
GROW_RATIO_PCT == 145
CHUNK_SIZE == 1048576
CLAUSE_DELETION_BLOCK == 250
INT_MAX == 2147483647
RUP_CONFLICT == 2147483647
RUP_STALL == 0
repeated_literal_ok == FALSE
\* a build in which a conflict before the end of the hint list is an error
early_rup_off == FALSE
early_rup == TRUE

IABS(x) == IF x < 0 THEN -x ELSE x

(***************************************************************************)
(* Integer lists                                                           *)
(***************************************************************************)
ilist_push(ils, val) == Append(ils, val)

ilist_sort(ils) == SortSeq(ils, LAMBDA a, b : a < b)

ilist_find_duplicate(ils) ==
    /\ Len(ils) > 1
    /\ \E i \in 2..Len(ils) : ils[i-1] = ils[i]

RECURSIVE ilist_deduplicate_loop(_, _, _)
ilist_deduplicate_loop(ils, i, out) ==
    IF i > Len(ils) THEN out
    ELSE IF ils[i] # out[Len(out)]
         THEN ilist_deduplicate_loop(ils, i + 1, Append(out, ils[i]))
         ELSE ilist_deduplicate_loop(ils, i + 1, out)

ilist_deduplicate(ils) ==
    IF Len(ils) <= 1 THEN ils ELSE ilist_deduplicate_loop(ils, 2, <<ils[1]>>)

RECURSIVE ilist_is_disjoint_loop(_, _, _, _)
ilist_is_disjoint_loop(ils1, ils2, i1, i2) ==
    IF i1 < Len(ils1) /\ i2 < Len(ils2)
    THEN LET v1 == ils1[i1 + 1]
             v2 == ils2[i2 + 1]
         IN  IF v1 = v2 THEN FALSE
             ELSE IF v1 < v2 THEN ilist_is_disjoint_loop(ils1, ils2, i1 + 1, i2)
             ELSE ilist_is_disjoint_loop(ils1, ils2, i1, i2 + 1)
    ELSE TRUE

ilist_is_disjoint(ils1, ils2) == ilist_is_disjoint_loop(ils1, ils2, 0, 0)

RECURSIVE ilist_union_loop(_, _, _, _, _)
ilist_union_loop(ils1, ils2, i1, i2, rls) ==
    IF i1 < Len(ils1) /\ i2 < Len(ils2)
    THEN LET v1 == ils1[i1 + 1]
             v2 == ils2[i2 + 1]
         IN  IF v1 < v2 THEN ilist_union_loop(ils1, ils2, i1 + 1, i2, Append(rls, v1))
             ELSE IF v2 < v1 THEN ilist_union_loop(ils1, ils2, i1, i2 + 1, Append(rls, v2))
             ELSE ilist_union_loop(ils1, ils2, i1 + 1, i2 + 1, Append(rls, v1))
    ELSE rls \o SubSeq(ils1, i1 + 1, Len(ils1)) \o SubSeq(ils2, i2 + 1, Len(ils2))

ilist_union(ils1, ils2) == ilist_union_loop(ils1, ils2, 0, 0, <<>>)

(***************************************************************************)
(* The record of globals the handlers work on                              *)
(***************************************************************************)
Globals ==
    [ error |-> error,
      variable_limit |-> variable_limit,
      lset_generation |-> lset_generation, lset_array |-> lset_array,
      clause_blocks |-> clause_blocks, chunk_set |-> chunk_set,
      chunk_used |-> chunk_used, clause_last_id |-> clause_last_id,
      clause_count |-> clause_count,
      node_list |-> node_list, node_count |-> node_count,
      declared_root |-> declared_root, root_clause_added |-> root_clause_added,
      declared_unsatisfiable |-> declared_unsatisfiable,
      proved_unsatisfiable |-> proved_unsatisfiable,
      explicit_deletion_count |-> explicit_deletion_count,
      implicit_deletion_count |-> implicit_deletion_count,
      neg_fanouts |-> neg_fanouts, pos_fanouts |-> pos_fanouts,
      clause_queue |-> clause_queue, processed_count |-> processed_count,
      prop |-> prop, rup_steps |-> rup_steps,
      explicit_deleted |-> explicit_deleted, conflict_cids |-> conflict_cids,
      stored |-> stored, deleted_ids |-> deleted_ids,
      undefined |-> FALSE ]

\* the NULL q25_ptr, the invalid q25 number and the uninitialised q25_ptr
q25_null == [valid |-> FALSE, n |-> 0, p |-> 0]

\* a CNF file without the comment "c t wmc"
NoWeights == [wmc |-> FALSE, lines |-> <<>>]

\* err_printf prints the message and calls exit(1)
err_printf(g, fun) == [g EXCEPT !.error = fun]

\* a local variable: the code F that follows its assignment sees the value v
With(v, F(_)) == F(v)

(***************************************************************************)
(* Set of literals for unit propagation: a generation-stamped array        *)
(***************************************************************************)
lset_init(g, var) ==
    LET asize == IF var > MIN_SIZE THEN var ELSE MIN_SIZE
    IN  [g EXCEPT !.lset_array = [i \in 1..asize |-> 0],
                  !.lset_generation = 1]

\* -x in an int: the negation of INT_MIN comes out as INT_MIN
neg_int(x) == IF x = -INT_MAX - 1 THEN x ELSE -x

\* lset_clear in a build that takes the test lset_generation < 0 after the
\* increment for lset_generation < -1 before it, which is the same test
\* unless the increment overflows: from INT_MAX the generation wraps to
\* INT_MIN and the array is not cleared
lset_clear_folded(g) ==
    IF g.lset_generation < -1
    THEN [g EXCEPT !.lset_array = [i \in 1..Len(g.lset_array) |-> 0],
                   !.lset_generation = 1]
    ELSE [g EXCEPT !.lset_generation =
             IF g.lset_generation = INT_MAX THEN -INT_MAX - 1 ELSE g.lset_generation + 1]

\* lset_clear in a build where the increment of INT_MAX wraps to INT_MIN and
\* the test is made on the result
lset_clear(g) ==
    IF g.lset_generation >= INT_MAX \/ g.lset_generation < -1
    THEN [g EXCEPT !.lset_array = [i \in 1..Len(g.lset_array) |-> 0],
                   !.lset_generation = 1]
    ELSE [g EXCEPT !.lset_generation = g.lset_generation + 1]

lset_check_size(g, var) ==
    IF var <= Len(g.lset_array) THEN g
    ELSE IF Len(g.lset_array) = 0 THEN lset_init(g, var)
    ELSE LET grown == (Len(g.lset_array) * GROW_RATIO_PCT) \div 100
             nasize == IF grown < var THEN var ELSE grown
         IN  [g EXCEPT !.lset_array =
                 [i \in 1..nasize |->
                     IF i <= Len(g.lset_array) THEN g.lset_array[i] ELSE 0]]

lset_get_lit(g, var) ==
    IF var <= 0 \/ var > Len(g.lset_array) THEN 0
    ELSE IF g.lset_array[var] = g.lset_generation THEN var
    ELSE IF g.lset_array[var] = neg_int(g.lset_generation) THEN -var
    ELSE 0

\* result: the globals, and field "added" for the bool the C function returns
lset_add_lit(g, lit) ==
    LET var == IABS(lit)
    IN  With(lset_check_size(g, var), LAMBDA g1 :
        With(lset_get_lit(g1, var), LAMBDA olit :
            IF olit # 0 /\ olit # lit
            THEN [g |-> g1, added |-> FALSE]
            ELSE [g |-> [g1 EXCEPT !.lset_array[var] =
                            IF lit > 0 THEN g1.lset_generation
                            ELSE neg_int(g1.lset_generation)],
                  added |-> TRUE]))

(***************************************************************************)
(* Clause store: blocks of consecutive ids over zero-terminated runs       *)
(***************************************************************************)
NewBlock(cid) ==
    [start_id |-> cid, length |-> 0, chunk |-> <<>>, offset |-> <<>>, type |-> <<>>]

RECURSIVE find_clause_loop(_, _, _, _)
find_clause_loop(blocks, cid, lid, rid) ==
    IF lid > rid THEN [found |-> FALSE, bid |-> -1, pos |-> 0]
    ELSE With((lid + rid) \div 2, LAMBDA bid :
         With(cid - blocks[bid + 1].start_id, LAMBDA pos :
             IF pos < 0 THEN find_clause_loop(blocks, cid, lid, bid - 1)
             ELSE IF pos >= blocks[bid + 1].length
                  THEN find_clause_loop(blocks, cid, bid + 1, rid)
             ELSE [found |-> TRUE, bid |-> bid, pos |-> pos]))

find_clause(g, cid) == find_clause_loop(g.clause_blocks, cid, 0, Len(g.clause_blocks) - 1)

goto_next_clause(g, loc) ==
    IF loc.pos + 1 < g.clause_blocks[loc.bid + 1].length
    THEN [found |-> TRUE, bid |-> loc.bid, pos |-> loc.pos + 1]
    ELSE IF loc.bid + 1 < Len(g.clause_blocks)
    THEN [found |-> TRUE, bid |-> loc.bid + 1, pos |-> 0]
    ELSE [found |-> FALSE, bid |-> loc.bid, pos |-> loc.pos]

generate_clause_id(g, loc) == g.clause_blocks[loc.bid + 1].start_id + loc.pos

\* clause_locate returns NULL for a slot without payload
clause_locate_null(g, loc) ==
    \/ g.clause_blocks[loc.bid + 1].chunk[loc.pos + 1] < 0
    \/ g.clause_blocks[loc.bid + 1].offset[loc.pos + 1] < 0

RECURSIVE literal_run(_, _)
literal_run(chunk, offset) ==
    IF chunk[offset + 1] = 0 THEN <<>>
    ELSE <<chunk[offset + 1]>> \o literal_run(chunk, offset + 1)

\* the literals a non-NULL clause pointer runs over, up to its terminating 0
clause_locate(g, loc) ==
    literal_run(g.chunk_set[g.clause_blocks[loc.bid + 1].chunk[loc.pos + 1] + 1],
                g.clause_blocks[loc.bid + 1].offset[loc.pos + 1])

clause_type(g, loc) == g.clause_blocks[loc.bid + 1].type[loc.pos + 1]

\* a variant of clause_delete that leaves the type of the slot as it is
clause_delete_keep_type(g, loc) ==
    [g |-> [g EXCEPT !.deleted_ids = @ \cup {generate_clause_id(g, loc)}],
     deleting |-> g.clause_blocks[loc.bid + 1].offset[loc.pos + 1] >= 0]

\* result: the globals, and field "deleting" for the bool the C function returns
clause_delete(g, loc) ==
    With(g.clause_blocks[loc.bid + 1].offset[loc.pos + 1] >= 0, LAMBDA deleting :
        IF deleting
        THEN With(clause_locate(g, loc), LAMBDA lits :
             IF \E i \in 1..Len(lits) :
                    /\ IABS(lits[i]) > input_variable_count
                    /\ IABS(lits[i]) > g.variable_limit
             THEN [g |-> err_printf(g, "clause_delete"), deleting |-> deleting]
             ELSE [g |-> [g EXCEPT !.clause_blocks[loc.bid + 1].type[loc.pos + 1] = "unknown",
                                   !.deleted_ids = @ \cup {generate_clause_id(g, loc)}],
                   deleting |-> deleting])
        ELSE [g |-> err_printf(g, "clause_delete"), deleting |-> deleting])

\* a variant of start_clause that takes any id
start_clause_any_id(g, cid, icc) ==
    LET nb == Len(g.clause_blocks)
        holes == IF cid > g.clause_last_id THEN cid - g.clause_last_id - 1 ELSE 0
    IN  [ (IF cid > g.clause_last_id + MAX_GAP \/ (nb = 1 /\ cid > icc)
           THEN [g EXCEPT !.clause_blocks = Append(@, NewBlock(cid))]
           ELSE [g EXCEPT
                  !.clause_blocks[nb].chunk = @ \o [i \in 1..holes |-> -1],
                  !.clause_blocks[nb].offset = @ \o [i \in 1..holes |-> -1],
                  !.clause_blocks[nb].type = @ \o [i \in 1..holes |-> "unknown"],
                  !.clause_blocks[nb].length = @ + holes])
          EXCEPT !.clause_last_id = cid, !.clause_count = @ + 1 ]

start_clause(g, cid, icc) ==
    IF cid <= g.clause_last_id THEN err_printf(g, "start_clause")
    ELSE LET nb == Len(g.clause_blocks)
             holes == cid - g.clause_last_id - 1
         IN  [ (IF cid > g.clause_last_id + MAX_GAP \/ (nb = 1 /\ cid > icc)
                THEN [g EXCEPT !.clause_blocks = Append(@, NewBlock(cid))]
                ELSE [g EXCEPT
                       !.clause_blocks[nb].chunk = @ \o [i \in 1..holes |-> -1],
                       !.clause_blocks[nb].offset = @ \o [i \in 1..holes |-> -1],
                       !.clause_blocks[nb].type = @ \o [i \in 1..holes |-> "unknown"],
                       !.clause_blocks[nb].length = @ + holes])
               EXCEPT !.clause_last_id = cid, !.clause_count = @ + 1 ]

\* a variant of finish_clause that copies the clause to the start of the chunk
finish_clause_at_chunk_start(g, current_clause, type) ==
    LET need == Len(current_clause)
        nc == Len(g.chunk_set)
        nb == Len(g.clause_blocks)
    IN  [g EXCEPT
          !.chunk_set[nc] = current_clause \o SubSeq(@, need + 1, Len(@)),
          !.chunk_used = IF @ > need THEN @ ELSE need,
          !.clause_blocks[nb].chunk = Append(@, nc - 1),
          !.clause_blocks[nb].offset = Append(@, 0),
          !.clause_blocks[nb].type = Append(@, type),
          !.clause_blocks[nb].length = @ + 1,
          !.stored = @ \cup {[cid |-> g.clause_last_id,
                              lits |-> SubSeq(current_clause, 1, need - 1),
                              type |-> type]}]

\* current_clause holds the literals and the terminating 0
finish_clause(g, current_clause, type) ==
    LET need == Len(current_clause)
    IN  IF need > CHUNK_SIZE THEN err_printf(g, "finish_clause")
        ELSE With(IF need + g.chunk_used > CHUNK_SIZE
                  THEN [g EXCEPT !.chunk_set = Append(@, <<>>), !.chunk_used = 0]
                  ELSE g, LAMBDA g1 :
             LET nc == Len(g1.chunk_set)
                 nb == Len(g1.clause_blocks)
             IN  [g1 EXCEPT
                   !.chunk_set[nc] = @ \o current_clause,
                   !.chunk_used = @ + need,
                   !.clause_blocks[nb].chunk = Append(@, nc - 1),
                   !.clause_blocks[nb].offset = Append(@, g1.chunk_used),
                   !.clause_blocks[nb].type = Append(@, type),
                   !.clause_blocks[nb].length = @ + 1,
                   !.stored = @ \cup {[cid |-> g.clause_last_id,
                                       lits |-> SubSeq(current_clause, 1, need - 1),
                                       type |-> type]}])

\* clause_add_literal applied to each element of lits in turn
clause_add_literal(g, lits) ==
    IF \E i \in 1..Len(lits) :
          IABS(lits[i]) > input_variable_count /\ IABS(lits[i]) > g.variable_limit
    THEN err_printf(g, "clause_add_literal")
    ELSE g

clause_is_unit(lits) ==
    /\ Len(lits) > 0
    /\ \A i \in 1..Len(lits) : lits[i] = lits[1]

(***************************************************************************)
(* RUP                                                                     *)
(***************************************************************************)
RECURSIVE rup_setup_loop(_, _, _)
rup_setup_loop(g, lits, i) ==
    IF i > Len(lits) THEN [g |-> g, ok |-> TRUE]
    ELSE With(lset_add_lit(g, -lits[i]), LAMBDA r :
             IF ~r.added THEN [g |-> r.g, ok |-> FALSE]
             ELSE rup_setup_loop(r.g, lits, i + 1))

\* result: the globals, and field "ok" for the bool the C function returns
rup_setup(g, lits) == rup_setup_loop(lset_clear(g), lits, 1)

\* a variant of rup_unit_prop that takes a repetition of the unit literal for
\* a second unassigned literal
RECURSIVE rup_unit_prop_loop_no_repeat(_, _, _, _)
rup_unit_prop_loop_no_repeat(g, lits, i, unit) ==
    IF i > Len(lits) THEN unit
    ELSE LET lit == lits[i]
             rlit == lset_get_lit(g, IABS(lit))
         IN  IF rlit = lit THEN RUP_STALL
             ELSE IF rlit = -lit THEN rup_unit_prop_loop_no_repeat(g, lits, i + 1, unit)
             ELSE IF unit = RUP_CONFLICT
             THEN rup_unit_prop_loop_no_repeat(g, lits, i + 1, lit)
             ELSE RUP_STALL

rup_unit_prop_no_repeat(g, loc) ==
    rup_unit_prop_loop_no_repeat(g, clause_locate(g, loc), 1, RUP_CONFLICT)

RECURSIVE rup_unit_prop_loop(_, _, _, _)
rup_unit_prop_loop(g, lits, i, unit) ==
    IF i > Len(lits) THEN unit
    ELSE LET lit == lits[i]
             rlit == lset_get_lit(g, IABS(lit))
         IN  IF lit = unit THEN rup_unit_prop_loop(g, lits, i + 1, unit)
             ELSE IF rlit = lit THEN RUP_STALL
             ELSE IF rlit = -lit THEN rup_unit_prop_loop(g, lits, i + 1, unit)
             ELSE IF unit = RUP_CONFLICT THEN rup_unit_prop_loop(g, lits, i + 1, lit)
             ELSE RUP_STALL

rup_unit_prop(g, loc) == rup_unit_prop_loop(g, clause_locate(g, loc), 1, RUP_CONFLICT)

\* a variant of hint_ok that lets every stored hint justify every target
hint_ok_any_type(htype, target_type) == htype # "unknown"

\* a variant of hint_ok whose default case leaves ok as it is
hint_ok_default_kept(htype, target_type) ==
    CASE htype = "tseitin" -> TRUE
      [] htype = "forward" -> target_type \in {"forward", "root"}
      [] htype = "input" -> target_type \in {"forward", "root", "input"}
      [] htype \in {"skolem", "root"} -> target_type = "input"
      [] htype \in {"structural", "disable"} ->
             target_type \in {"forward", "root", "structural"}
      [] OTHER -> TRUE

\* the switch over the hint's clause type in rup_run
hint_ok(htype, target_type) ==
    CASE htype = "tseitin" -> TRUE
      [] htype = "forward" -> target_type \in {"forward", "root"}
      [] htype = "input" -> target_type \in {"forward", "root", "input"}
      [] htype \in {"skolem", "root"} -> target_type = "input"
      [] htype \in {"structural", "disable"} ->
             target_type \in {"forward", "root", "structural"}
      [] OTHER -> FALSE

\* a variant of rup_run_end that returns without a conflict
rup_run_end_without_conflict(g, conflict, ok, steps) ==
    LET g1 == [g EXCEPT !.rup_steps = steps]
    IN  IF ~ok THEN err_printf(g1, "rup_run") ELSE g1

\* what rup_run does when it reads the terminating 0 of the hint list
rup_run_end(g, conflict, ok, steps) ==
    LET g1 == [g EXCEPT !.rup_steps = steps]
    IN  IF ~conflict THEN err_printf(g1, "rup_run")
        ELSE IF ~ok THEN err_printf(g1, "rup_run")
        ELSE g1

\* hints: the hint ids of the line; the terminating 0 is its end
RECURSIVE rup_run_loop(_, _, _, _, _, _, _)
rup_run_loop(g, hints, i, target_type, conflict, ok, steps) ==
    IF i > Len(hints) THEN rup_run_end(g, conflict, ok, steps)
    ELSE IF conflict
    THEN IF early_rup
         THEN IF ~ok THEN err_printf([g EXCEPT !.rup_steps = steps], "rup_run")
              ELSE [g EXCEPT !.rup_steps = steps]
         ELSE err_printf([g EXCEPT !.rup_steps = steps], "rup_run")
    ELSE With(find_clause(g, hints[i]), LAMBDA loc :
             IF ~loc.found THEN err_printf([g EXCEPT !.rup_steps = steps], "rup_run")
             ELSE IF clause_locate_null(g, loc)
             \* rup_unit_prop reads through the NULL pointer of a padding slot
             THEN err_printf([g EXCEPT !.rup_steps = steps], "SIGSEGV")
             ELSE With(ok /\ hint_ok(clause_type(g, loc), target_type), LAMBDA ok2 :
                  With(rup_unit_prop(g, loc), LAMBDA unit :
                      IF unit = RUP_CONFLICT
                      THEN rup_run_loop(g, hints, i + 1, target_type, TRUE, ok2, steps + 1)
                      ELSE IF unit = RUP_STALL
                      THEN IF skipping_rup
                           THEN rup_run_loop(g, hints, i + 1, target_type,
                                             conflict, ok2, steps + 1)
                           ELSE err_printf([g EXCEPT !.rup_steps = steps + 1], "rup_run")
                      ELSE rup_run_loop(lset_add_lit(g, unit).g, hints, i + 1,
                                        target_type, conflict, ok2, steps + 1))))

\* a variant of rup_run that skips the check of a mutual exclusion
rup_run_except_mutex(g, hints, target_type) ==
    IF target_type = "structural" THEN g
    ELSE rup_run_loop(g, hints, 1, target_type, FALSE, TRUE, 0)

rup_run(g, hints, target_type) == rup_run_loop(g, hints, 1, target_type, FALSE, TRUE, 0)

\* rup_skip reads the hints without looking at them
rup_skip(g) == g

(***************************************************************************)
(* POG nodes                                                               *)
(***************************************************************************)
NoNode(nid) ==
    [type |-> "none", id |-> nid, cid |-> 0, dependency_list |-> <<>>, children |-> <<>>]

\* index into node_list (from 0), or -1 for NULL
node_find(g, id) ==
    LET idx == id - input_variable_count - 1
    IN  IF idx < 0 \/ idx >= Len(g.node_list) THEN -1 ELSE idx

node_new(g, type, id, cid) ==
    IF id <= input_variable_count THEN err_printf(g, "node_new")
    ELSE LET node_asize == Len(g.node_list)
             want == id - input_variable_count
             n1 == IF want < MIN_SIZE THEN MIN_SIZE ELSE want
             grown == (GROW_RATIO_PCT * node_asize) \div 100
             nasize == IF n1 < grown THEN grown ELSE n1
         IN  With(IF want > node_asize
                  THEN [g EXCEPT
                         !.node_list = [idx \in 1..nasize |->
                             IF idx <= node_asize THEN g.node_list[idx]
                             ELSE NoNode(idx + input_variable_count)],
                         !.variable_limit = nasize + input_variable_count]
                  ELSE g, LAMBDA g1 :
             With(node_find(g1, id), LAMBDA idx :
                 IF g1.node_list[idx + 1].type # "none" THEN err_printf(g1, "node_new")
                 ELSE [g1 EXCEPT !.node_list[idx + 1].type = type,
                                 !.node_list[idx + 1].cid = cid,
                                 !.node_count = @ + 1]))

(***************************************************************************)
(* Handlers of the CPOG commands.  Each starts after the command token;    *)
(* its arguments are the integer tokens of the rest of the line, without   *)
(* the terminating zeros.                                                  *)
(***************************************************************************)
cpog_read_root(g, tok) ==
    [g EXCEPT !.declared_root = tok,
              !.declared_unsatisfiable = IF tok = 0 THEN TRUE ELSE @]

\* start_clause, clause_add_literal for each literal and the final 0, finish_clause
store_clause(g, cid, lits, type) ==
    With(start_clause(g, cid, input_clause_count), LAMBDA g1 :
        IF g1.error # "" THEN g1
        ELSE With(clause_add_literal(g1, lits), LAMBDA g2 :
            IF g2.error # "" THEN g2
            ELSE finish_clause(g2, lits \o <<0>>, type)))

RECURSIVE cpog_add_clause_literals(_, _, _)
cpog_add_clause_literals(g, lits, i) ==
    IF i > Len(lits) THEN g
    ELSE With(clause_add_literal(g, <<lits[i]>>), LAMBDA g1 :
             IF g1.error # "" THEN g1
             ELSE cpog_add_clause_literals(lset_add_lit(g1, -lits[i]).g, lits, i + 1))

cpog_add_clause(g, cid, lits, hints, is_structural) ==
    LET clen == Len(lits)
        is_root == ~is_structural /\ clen = 1 /\ lits[clen] = g.declared_root
        ctype == IF is_structural THEN "structural"
                 ELSE IF is_root THEN "root" ELSE "forward"
    IN  With(start_clause(lset_clear(g), cid, input_clause_count), LAMBDA g1 :
        IF g1.error # "" THEN g1
        ELSE With(cpog_add_clause_literals(g1, lits, 1), LAMBDA g2 :
        IF g2.error # "" THEN g2
        ELSE With([g2 EXCEPT
                    !.proved_unsatisfiable =
                        IF ~is_structural /\ clen = 0 THEN TRUE ELSE @,
                    !.root_clause_added = IF is_root THEN TRUE ELSE @], LAMBDA g3 :
             With(IF ~check_add THEN rup_skip(g3) ELSE rup_run(g3, hints, ctype),
                  LAMBDA g4 :
                  IF g4.error # "" THEN g4
                  ELSE finish_clause(g4, lits \o <<0>>, ctype)))))

cpog_delete_clause(g, cid, hints) ==
    With(find_clause(g, cid), LAMBDA loc :
        IF cid > input_clause_count THEN err_printf(g, "cpog_delete_clause")
        ELSE IF ~loc.found THEN err_printf(g, "cpog_delete_clause")
        ELSE IF clause_locate_null(g, loc) THEN err_printf(g, "SIGSEGV")
        ELSE With(rup_setup(g, clause_locate(g, loc)), LAMBDA s :
             With(~s.ok, LAMBDA tautology :
             With(clause_delete(s.g, loc), LAMBDA d :
                 IF d.g.error # "" THEN d.g
                 ELSE IF ~d.deleting THEN err_printf(d.g, "cpog_delete_clause")
                 ELSE With(IF tautology THEN d.g
                           ELSE IF ~check_delete THEN rup_skip(d.g)
                           ELSE rup_run(d.g, hints, "input"), LAMBDA g2 :
                      IF g2.error # "" THEN g2
                      ELSE [g2 EXCEPT !.explicit_deletion_count = @ + 1,
                                      !.explicit_deleted = @ \cup {cid}])))))

RECURSIVE cpog_batch_delete_clauses_loop(_, _, _)
cpog_batch_delete_clauses_loop(g, cids, i) ==
    IF i > Len(cids) THEN g
    ELSE With(find_clause(g, cids[i]), LAMBDA loc :
             IF ~loc.found THEN err_printf(g, "cpog_batch_delete_clauses")
             ELSE IF ~(clause_type(g, loc) \in {"forward", "structural"})
             THEN err_printf(g, "cpog_batch_delete_clauses")
             ELSE With(clause_delete(g, loc), LAMBDA d :
                      IF d.g.error # "" THEN d.g
                      ELSE IF ~d.deleting THEN err_printf(d.g, "cpog_batch_delete_clauses")
                      ELSE cpog_batch_delete_clauses_loop(d.g, cids, i + 1)))

\* a variant of cpog_batch_delete_clauses without the test of the clause type
cpog_batch_delete_clauses_any_type(g, cids) ==
    With(find_clause(g, cids[1]), LAMBDA loc :
        IF ~loc.found THEN err_printf(g, "cpog_batch_delete_clauses")
        ELSE IF clause_locate_null(g, loc) THEN err_printf(g, "clause_delete")
        ELSE clause_delete(g, loc).g)

cpog_batch_delete_clauses(g, cids) == cpog_batch_delete_clauses_loop(g, cids, 1)

\* the loop of cpog_add_product over the child tokens; local: local_dependency_list
RECURSIVE cpog_add_product_children(_, _, _, _, _)
cpog_add_product_children(g, nid, toks, i, local) ==
    IF i > Len(toks) THEN [g |-> g, local |-> local]
    ELSE LET lit == toks[i]
             var == IABS(lit)
             n == node_find(g, nid) + 1
         IN  With([g EXCEPT !.node_list[n].children = ilist_push(@, lit)], LAMBDA g1 :
             With(node_find(g1, var) + 1, LAMBDA c :
             IF var <= input_variable_count
             THEN IF is_pkc /\ ~show_variables[var] /\ nid <= g.declared_root
                  THEN [g |-> err_printf(g1, "cpog_add_product"), local |-> local]
                  ELSE cpog_add_product_children(g1, nid, toks, i + 1,
                                                 ilist_push(local, var))
             ELSE IF var # lit
                  THEN [g |-> err_printf(g1, "cpog_add_product"), local |-> local]
             ELSE IF c = 0 \/ g1.node_list[IF c = 0 THEN 1 ELSE c].type = "none"
                  THEN [g |-> err_printf(g1, "cpog_add_product"), local |-> local]
             ELSE IF ~ilist_is_disjoint(g1.node_list[n].dependency_list,
                                        g1.node_list[c].dependency_list)
                  THEN [g |-> err_printf(g1, "cpog_add_product"), local |-> local]
             ELSE cpog_add_product_children(
                      [g1 EXCEPT !.node_list[n].dependency_list =
                          ilist_union(@, g1.node_list[c].dependency_list)],
                      nid, toks, i + 1, local)))

\* a variant of child_clauses that stores the children in reverse order
RECURSIVE child_clauses_reversed(_, _, _, _, _, _, _)
child_clauses_reversed(g, cid, first, sign, children, i, type) ==
    IF g.error # "" \/ i > Len(children) THEN g
    ELSE child_clauses_reversed(
             store_clause(g, cid + i,
                          <<first, sign * children[Len(children) + 1 - i]>>, type),
             cid, first, sign, children, i + 1, type)

\* the defining clauses cid+1 .. cid+n of a node: (first, second * child_i)
RECURSIVE child_clauses(_, _, _, _, _, _, _)
child_clauses(g, cid, first, sign, children, i, type) ==
    IF i > Len(children) \/ g.error # "" THEN g
    ELSE child_clauses(store_clause(g, cid + i, <<first, sign * children[i]>>, type),
                       cid, first, sign, children, i + 1, type)

cpog_add_product(g, cid, nid, toks) ==
    With(node_new(g, "product", nid, cid), LAMBDA g1 :
    IF g1.error # "" THEN g1
    ELSE With(cpog_add_product_children(g1, nid, toks, 1, <<>>), LAMBDA r :
    IF r.g.error # "" THEN r.g
    ELSE With(node_find(r.g, nid) + 1, LAMBDA n :
         With(ilist_sort(r.local), LAMBDA sorted :
         With(IF repeated_literal_ok THEN ilist_deduplicate(sorted) ELSE sorted,
              LAMBDA local :
         With(IF Len(r.local) = 0 THEN r.g
              ELSE IF ~repeated_literal_ok /\ ilist_find_duplicate(sorted)
              THEN err_printf(r.g, "cpog_add_product")
              ELSE IF ~ilist_is_disjoint(r.g.node_list[n].dependency_list, local)
              THEN err_printf(r.g, "cpog_add_product")
              ELSE [r.g EXCEPT !.node_list[n].dependency_list = ilist_union(@, local)],
              LAMBDA g2 :
    IF g2.error # "" THEN g2
    ELSE With(g2.node_list[n].children, LAMBDA children :
         With(Len(children) = 0 /\ nid = g.declared_root, LAMBDA is_root :
         With(store_clause(g2, cid,
                           <<nid>> \o [i \in 1..Len(children) |-> -children[i]],
                           IF is_root THEN "root" ELSE "tseitin"), LAMBDA g3 :
         With(child_clauses(g3, cid, -nid, 1, children, 1, "tseitin"), LAMBDA g4 :
              IF g4.error # "" THEN g4
              ELSE [g4 EXCEPT !.root_clause_added =
                                  IF is_root THEN TRUE ELSE @]))))))))))

RECURSIVE cpog_add_skolem_children(_, _, _, _)
cpog_add_skolem_children(g, nid, toks, i) ==
    IF i > Len(toks) THEN g
    ELSE LET lit == toks[i]
             var == IABS(lit)
             n == node_find(g, nid) + 1
         IN  With([g EXCEPT !.node_list[n].children = ilist_push(@, lit)], LAMBDA g1 :
             IF var <= input_variable_count
             THEN IF show_variables[var]
                  THEN err_printf(g1, "cpog_add_skolem")
                  ELSE cpog_add_skolem_children(
                          [g1 EXCEPT !.node_list[n].dependency_list = ilist_push(@, var)],
                          nid, toks, i + 1)
             ELSE err_printf(g1, "cpog_add_skolem"))

cpog_add_skolem(g, cid, nid, toks) ==
    IF ~is_pkc THEN err_printf(g, "cpog_add_skolem")
    ELSE With(node_new(g, "skolem", nid, cid), LAMBDA g1 :
    IF g1.error # "" THEN g1
    ELSE With(cpog_add_skolem_children(g1, nid, toks, 1), LAMBDA g2 :
    IF g2.error # "" THEN g2
    ELSE With(node_find(g2, nid) + 1, LAMBDA n :
         With(ilist_sort(g2.node_list[n].dependency_list), LAMBDA sorted :
         With(IF repeated_literal_ok
              THEN [g2 EXCEPT !.node_list[n].dependency_list = ilist_deduplicate(sorted)]
              ELSE IF ilist_find_duplicate(sorted)
              THEN err_printf([g2 EXCEPT !.node_list[n].dependency_list = sorted],
                              "cpog_add_skolem")
              ELSE [g2 EXCEPT !.node_list[n].dependency_list = sorted], LAMBDA g3 :
    IF g3.error # "" THEN g3
    ELSE With(store_clause(g3, cid, <<nid>>, "disable"), LAMBDA g4 :
         IF use_explicit_deletion
         THEN child_clauses(g4, cid, -nid, 1, g3.node_list[n].children, 1, "skolem")
         ELSE g4))))))

\* the loop of cpog_add_sum over the child tokens; local: local_dependency_list
RECURSIVE cpog_add_sum_children(_, _, _, _, _, _)
cpog_add_sum_children(g, nid, toks, i, local, weak) ==
    IF i > Len(toks) THEN [g |-> g, local |-> local]
    ELSE LET lit == toks[i]
             var == IABS(lit)
             n == node_find(g, nid) + 1
         IN  With([g EXCEPT !.node_list[n].children = ilist_push(@, lit)], LAMBDA g1 :
             With(node_find(g1, var) + 1, LAMBDA c :
             With(~weak /\ Len(g1.node_list[n].children) = 2, LAMBDA stop :
             IF var <= input_variable_count
             THEN IF is_pkc /\ ~show_variables[var]
                  THEN [g |-> err_printf(g1, "cpog_add_sum"), local |-> local]
                  ELSE IF stop THEN [g |-> g1, local |-> ilist_push(local, var)]
                  ELSE cpog_add_sum_children(g1, nid, toks, i + 1,
                                             ilist_push(local, var), weak)
             ELSE IF var # lit
                  THEN [g |-> err_printf(g1, "cpog_add_sum"), local |-> local]
             ELSE IF c = 0 \/ g1.node_list[IF c = 0 THEN 1 ELSE c].type = "none"
                  THEN [g |-> err_printf(g1, "cpog_add_sum"), local |-> local]
             ELSE With([g1 EXCEPT !.node_list[n].dependency_list =
                           ilist_union(@, g1.node_list[c].dependency_list)], LAMBDA g2 :
                      IF stop THEN [g |-> g2, local |-> local]
                      ELSE cpog_add_sum_children(g2, nid, toks, i + 1, local, weak)))))

\* toks: the child tokens; a non-weak sum takes the first two
cpog_add_sum(g, cid, nid, toks, hints, weak) ==
    With(node_new(g, "sum", nid, cid), LAMBDA g1 :
    IF g1.error # "" THEN g1
    ELSE With(cpog_add_sum_children(g1, nid, toks, 1, <<>>, weak), LAMBDA r :
    IF r.g.error # "" THEN r.g
    ELSE With(node_find(r.g, nid) + 1, LAMBDA n :
         With(IF Len(r.local) > 0
              THEN [r.g EXCEPT !.node_list[n].dependency_list =
                       ilist_union(@, ilist_sort(r.local))]
              ELSE r.g, LAMBDA g2 :
         With(g2.node_list[n].children, LAMBDA children :
         With(IF ~weak
              THEN rup_run(lset_add_lit(lset_add_lit(lset_clear(g2), children[1]).g,
                                        children[2]).g,
                           hints, "structural")
              ELSE g2, LAMBDA g3 :
    IF g3.error # "" THEN g3
    ELSE With(store_clause(g3, cid, <<-nid>> \o children, "tseitin"), LAMBDA g4 :
         child_clauses(g4, cid, nid, -1, children, 1, "tseitin"))))))))

(***************************************************************************)
(* Reverse implication                                                     *)
(***************************************************************************)
new_propagator(g) ==
    [ node_event_count |-> [i \in 1..g.node_count |-> 0],
      priority_queue |-> <<>>,
      implicit_deletion_count |-> 0 ]

reset_propagator(p) == [p EXCEPT !.priority_queue = <<>>]

var_to_index(var) == var - input_variable_count

\* fanouts of the children of node_list[idx]; a positive child beyond
\* pos_fanouts' declared_root entries is a write outside the array
RECURSIVE build_deletion_structures_loop(_, _, _)
build_deletion_structures_loop(g, idx, i) ==
    IF idx >= g.node_count THEN g
    ELSE LET node == g.node_list[idx + 1]
         IN  IF node.type = "none" \/ i >= Len(node.children)
             THEN build_deletion_structures_loop(g, idx + 1, 0)
             ELSE LET clit == node.children[i + 1]
                      var == IABS(clit)
                  IN  build_deletion_structures_loop(
                        IF clit < 0
                        THEN [g EXCEPT !.neg_fanouts[var] = ilist_push(@, node.id)]
                        ELSE [g EXCEPT !.pos_fanouts[var] = ilist_push(@, node.id),
                                       !.undefined = @ \/ var > g.declared_root],
                        idx, i + 1)

build_deletion_structures(g) ==
    LET size == IF g.declared_root > g.variable_limit
                THEN g.declared_root ELSE g.variable_limit
    IN  With(build_deletion_structures_loop(
                 [g EXCEPT !.neg_fanouts = [i \in 1..input_variable_count |-> <<>>],
                           !.pos_fanouts = [i \in 1..size |-> <<>>]], 0, 0), LAMBDA g2 :
        IF repeated_literal_ok
        THEN [g2 EXCEPT
               !.neg_fanouts = [v \in 1..input_variable_count |->
                                   ilist_deduplicate(g2.neg_fanouts[v])],
               !.pos_fanouts = [v \in 1..size |->
                                   IF v <= input_variable_count
                                   THEN ilist_deduplicate(g2.pos_fanouts[v])
                                   ELSE g2.pos_fanouts[v]]]
        ELSE g2)

\* a variant of sift_down that never looks at the right child
RECURSIVE sift_down_left_only(_, _)
sift_down_left_only(q, idx) ==
    LET left == 2 * idx + 1
        min == IF left < Len(q) /\ q[left + 1] < q[idx + 1] THEN left ELSE idx
    IN  IF left >= Len(q) \/ min = idx THEN q
        ELSE sift_down_left_only(
                 [q EXCEPT ![min + 1] = q[idx + 1], ![idx + 1] = q[min + 1]], min)

RECURSIVE sift_down(_, _)
sift_down(q, idx) ==
    LET left == 2 * idx + 1
        right == left + 1
        m1 == IF left < Len(q) /\ q[left + 1] < q[idx + 1] THEN left ELSE idx
        min == IF right < Len(q) /\ q[right + 1] < q[m1 + 1] THEN right ELSE m1
    IN  IF left >= Len(q) \/ min = idx THEN q
        ELSE sift_down([q EXCEPT ![min + 1] = q[idx + 1], ![idx + 1] = q[min + 1]], min)

RECURSIVE sift_up(_, _)
sift_up(q, idx) ==
    LET parent == (idx - 1) \div 2
    IN  IF idx > 0 /\ q[idx + 1] < q[parent + 1]
        THEN sift_up([q EXCEPT ![idx + 1] = q[parent + 1], ![parent + 1] = q[idx + 1]],
                     parent)
        ELSE q

\* plusplus_max2 on the node's counter, and the push when the counter was 0
priority_add(p, var) ==
    LET index == var_to_index(var)
        rval == p.node_event_count[index]
        p1 == IF rval < 2 THEN [p EXCEPT !.node_event_count[index] = rval + 1] ELSE p
    IN  IF rval = 0
        THEN [p1 EXCEPT !.priority_queue =
                 sift_up(Append(p.priority_queue, var), Len(p.priority_queue))]
        ELSE p1

\* result: field "var" for the returned id (-1 when empty), and the propagator
priority_next(p) ==
    IF Len(p.priority_queue) = 0 THEN [var |-> -1, p |-> p]
    ELSE LET q == p.priority_queue
             n == Len(q)
             moved == IF n = 1 THEN <<>> ELSE [SubSeq(q, 1, n - 1) EXCEPT ![1] = q[n]]
         IN  [var |-> q[1],
              p |-> [p EXCEPT !.priority_queue =
                        IF n = 1 THEN <<>> ELSE sift_down(moved, 0)]]

RECURSIVE priority_add_all(_, _, _)
priority_add_all(p, fanouts, i) ==
    IF i > Len(fanouts) THEN p
    ELSE priority_add_all(priority_add(p, fanouts[i]), fanouts, i + 1)

\* reading pos_fanouts beyond its declared_root entries is a read outside the array
process_fanout(g, lit) ==
    LET var == IABS(lit)
        fanouts == IF lit < 0 THEN g.pos_fanouts[var] ELSE g.neg_fanouts[var]
    IN  [g EXCEPT !.prop = priority_add_all(g.prop, fanouts, 1),
                  !.undefined = @ \/ (lit < 0 /\ var > g.declared_root)]

RECURSIVE rup_run_input_seed(_, _, _)
rup_run_input_seed(g, lits, i) ==
    IF i > Len(lits) THEN g
    ELSE rup_run_input_seed(process_fanout(g, -lits[i]), lits, i + 1)

\* one pass of the event loop for the node nx.var that priority_next returned
rup_run_input_step(g, nx) ==
    LET idx == var_to_index(nx.var)
        node == g.node_list[idx]
        ecount == nx.p.node_event_count[idx]
        propagate_threshold == IF node.type = "sum" THEN Len(node.children) ELSE 1
    IN  With([g EXCEPT !.prop = [nx.p EXCEPT !.node_event_count[idx] = 0]], LAMBDA g1 :
            IF ecount >= propagate_threshold
            THEN [g |-> process_fanout(g1, -node.id), conflict |-> nx.var = g.declared_root]
            ELSE [g |-> g1, conflict |-> FALSE])

\* the event loop; seen: the (queue, counters) pairs the loop head has been at,
\* a repeated pair being a loop that never ends
RECURSIVE rup_run_input_loop(_, _, _)
rup_run_input_loop(g, conflict, seen) ==
    LET here == <<g.prop.priority_queue, g.prop.node_event_count>>
    IN  With(priority_next(g.prop), LAMBDA nx :
        IF conflict \/ nx.var <= 0 THEN [g |-> g, conflict |-> conflict, hang |-> FALSE]
        ELSE IF here \in seen THEN [g |-> g, conflict |-> FALSE, hang |-> TRUE]
        ELSE With(rup_run_input_step(g, nx), LAMBDA r :
                 rup_run_input_loop(r.g, r.conflict, seen \cup {here})))

\* the propagators the event loop has at its head, one after the other
RECURSIVE rup_run_input_heads(_, _, _)
rup_run_input_heads(g, conflict, seen) ==
    LET here == <<g.prop.priority_queue, g.prop.node_event_count>>
    IN  With(priority_next(g.prop), LAMBDA nx :
        IF conflict \/ nx.var <= 0 \/ here \in seen THEN {g.prop}
        ELSE With(rup_run_input_step(g, nx), LAMBDA r :
                 {g.prop} \cup rup_run_input_heads(r.g, r.conflict, seen \cup {here})))

\* result: the globals, and field "hang" when the event loop never ends
rup_run_input(g, tcid, lits) ==
    With(rup_run_input_loop(rup_run_input_seed(g, lits, 1), FALSE, {}), LAMBDA r :
        IF r.hang THEN [g |-> r.g, hang |-> TRUE]
        ELSE With([r.g EXCEPT !.prop = reset_propagator(@)], LAMBDA g1 :
            IF ~r.conflict THEN [g |-> err_printf(g1, "rup_run_input"), hang |-> FALSE]
            ELSE [g |-> [g1 EXCEPT !.conflict_cids = @ \cup {tcid}], hang |-> FALSE]))

implicit_delete_input_clause(g, cid, loc) ==
    With(clause_delete(g, loc), LAMBDA d :
        IF d.g.error # "" THEN [g |-> d.g, hang |-> FALSE]
        ELSE With(rup_run_input(d.g, cid, clause_locate(g, loc)), LAMBDA r :
            IF r.hang \/ r.g.error # "" THEN r
            ELSE [g |-> [r.g EXCEPT !.prop.implicit_deletion_count = @ + 1],
                  hang |-> FALSE]))

RECURSIVE clear_tautologies_loop(_, _)
clear_tautologies_loop(g, loc) ==
    IF ~loc.found \/ g.error # "" THEN g
    ELSE IF generate_clause_id(g, loc) > input_clause_count THEN g
    ELSE With(rup_setup(g, clause_locate(g, loc)), LAMBDA s :
             IF ~s.ok
             THEN clear_tautologies_loop(
                      clause_delete([s.g EXCEPT !.implicit_deletion_count = @ + 1], loc).g,
                      goto_next_clause(g, loc))
             ELSE clear_tautologies_loop(s.g, goto_next_clause(g, loc)))

\* a variant of clear_tautologies that leaves every clause in place
clear_tautologies_none(g) == g

clear_tautologies(g) == clear_tautologies_loop(g, find_clause(g, 1))

update_report(g) ==
    [g EXCEPT !.implicit_deletion_count = @ + g.prop.implicit_deletion_count,
              !.prop.implicit_deletion_count = 0]

RECURSIVE cpog_delete_range_loop(_, _, _)
cpog_delete_range_loop(g, loc, cid_max) ==
    IF ~loc.found \/ generate_clause_id(g, loc) > cid_max
    THEN [g |-> update_report(g), hang |-> FALSE]
    ELSE IF clause_type(g, loc) = "input"
    THEN With(implicit_delete_input_clause(g, generate_clause_id(g, loc), loc), LAMBDA r :
             IF r.hang \/ r.g.error # "" THEN r
             ELSE cpog_delete_range_loop(r.g, goto_next_clause(r.g, loc), cid_max))
    ELSE cpog_delete_range_loop(g, goto_next_clause(g, loc), cid_max)

cpog_delete_range(g, cid_min, cid_max) ==
    cpog_delete_range_loop(g, find_clause(g, cid_min), cid_max)

\* ranges of ceil(icc/tl) clauses whatever CLAUSE_DELETION_BLOCK is
clause_ranges_uncapped(icc, tl) ==
    LET block_size == (icc + tl - 1) \div tl
        clause_queue_count == (icc + block_size - 1) \div block_size
    IN  [qi \in 1..clause_queue_count |->
              LET cid_min == 1 + (qi - 1) * block_size
              IN  [cid_min |-> cid_min,
                   cid_max |-> IF cid_min + block_size - 1 > icc
                               THEN icc
                               ELSE cid_min + block_size - 1]]

\* the ranges setup_deletion_queue computes from input_clause_count (icc)
\* and thread_limit (tl), tl nonzero
clause_ranges(icc, tl) ==
    LET per_thread == (icc + tl - 1) \div tl
        block_size == IF per_thread > CLAUSE_DELETION_BLOCK
                      THEN CLAUSE_DELETION_BLOCK ELSE per_thread
        clause_queue_count == (icc + block_size - 1) \div block_size
    IN  [qi \in 1..clause_queue_count |->
              LET cid_min == 1 + (qi - 1) * block_size
              IN  [cid_min |-> cid_min,
                   cid_max |-> IF cid_min + block_size - 1 > icc
                               THEN icc
                               ELSE cid_min + block_size - 1]]

\* thread_limit is nonzero here
setup_deletion_queue(g) ==
    [g EXCEPT !.clause_queue = clause_ranges(input_clause_count, thread_limit),
              !.processed_count = 0]

\* the loop of run_deletion with one propagator, from g.processed_count on
RECURSIVE run_deletion_loop(_)
run_deletion_loop(g) ==
    IF g.processed_count >= Len(g.clause_queue) THEN [g |-> g, hang |-> FALSE]
    ELSE With(cpog_delete_range([g EXCEPT !.processed_count = @ + 1],
                                g.clause_queue[g.processed_count + 1].cid_min,
                                g.clause_queue[g.processed_count + 1].cid_max), LAMBDA r :
             IF r.hang \/ r.g.error # "" THEN r ELSE run_deletion_loop(r.g))

\* cpog_final_root up to the loop of run_deletion
cpog_final_root(g) ==
    IF g.declared_unsatisfiable THEN g
    ELSE IF ~g.root_clause_added THEN err_printf(g, "cpog_final_root")
    ELSE IF check_delete /\ g.explicit_deletion_count < input_clause_count
    THEN With(clear_tautologies([g EXCEPT !.implicit_deletion_count = 0]), LAMBDA g1 :
             IF g1.error # "" THEN g1
             ELSE With(build_deletion_structures(g1), LAMBDA g2 :
                 \* the division by thread_limit in setup_deletion_queue: the
                 \* run ends in a signal, at the division or, where a division
                 \* by zero yields a value, in the loop that then never
                 \* advances cid_min and fills clause_queue beyond its end
                 IF thread_limit = 0 THEN err_printf(g2, "SIGFPE")
                 ELSE [setup_deletion_queue(g2) EXCEPT !.prop = new_propagator(g2)]))
    ELSE g

\* whether cpog_final_root goes on to run_deletion
runs_deletion(g) ==
    ~g.declared_unsatisfiable /\ check_delete
        /\ g.explicit_deletion_count < input_clause_count

\* a verdict that does not look at proved_unsatisfiable
run_banner_unproved(g) ==
    IF g.declared_unsatisfiable \/ g.declared_root = 0
    THEN IF ~check_add THEN "NOTHING CHECKED" ELSE "FULL-PROOF SUCCESS"
    ELSE IF ~check_add /\ ~check_delete THEN "NOTHING CHECKED"
    ELSE IF ~check_add THEN "CLAUSE DELETIONS VALID"
    ELSE IF ~check_delete THEN "CLAUSE ADDITIONS VALID"
    ELSE "FULL-PROOF SUCCESS"

\* a verdict that does not look at -A and -D
run_banner_any_option(g) ==
    IF g.declared_unsatisfiable /\ ~g.proved_unsatisfiable THEN ""
    ELSE "FULL-PROOF SUCCESS"

\* the verdict of run(): the banner, or "" with an error
run_banner(g) ==
    LET root == IF g.declared_unsatisfiable THEN 0 ELSE g.declared_root
    IN  IF root = 0
        THEN IF ~check_add THEN "NOTHING CHECKED"
             ELSE IF ~g.proved_unsatisfiable THEN ""
             ELSE "FULL-PROOF SUCCESS"
        ELSE IF ~check_add /\ ~check_delete THEN "NOTHING CHECKED"
        ELSE IF ~check_add THEN "CLAUSE DELETIONS VALID"
        ELSE IF ~check_delete THEN "CLAUSE ADDITIONS VALID"
        ELSE "FULL-PROOF SUCCESS"

(***************************************************************************)
(* The run: main's options, cnf_read, cpog_read line by line, the root     *)
(* check at end of file, run_deletion range by range, and run's verdict    *)
(***************************************************************************)
NoCmd == [op |-> "", cid |-> 0, nid |-> 0, toks |-> <<>>, hints |-> <<>>]

Cmd(op, cid, nid, toks, hints) ==
    [op |-> op, cid |-> cid, nid |-> nid, toks |-> toks, hints |-> hints]

\* the state main() hands to run(): opt is what the command line set
InitLset(opt, icc, at, generation, array) ==
    /\ pc = at
    /\ error = ""
    /\ banner = ""
    /\ check_add = opt.check_add
    /\ check_delete = opt.check_delete
    /\ weak_mode = opt.weak_mode
    /\ use_explicit_deletion = opt.use_explicit_deletion
    /\ skipping_rup = opt.skipping_rup
    /\ thread_limit = opt.thread_limit
    /\ is_pkc = FALSE
    /\ show_variables = <<>>
    /\ input_variable_count = 0
    /\ input_clause_count = icc
    /\ variable_limit = 0
    /\ lset_generation = generation
    /\ lset_array = array
    /\ clause_blocks = <<>>
    /\ chunk_set = <<>>
    /\ chunk_used = 0
    /\ clause_last_id = 0
    /\ clause_count = 0
    /\ node_list = <<>>
    /\ node_count = 0
    /\ declared_root = 0
    /\ root_clause_added = FALSE
    /\ declared_unsatisfiable = FALSE
    /\ proved_unsatisfiable = FALSE
    /\ explicit_deletion_count = 0
    /\ implicit_deletion_count = 0
    /\ neg_fanouts = <<>>
    /\ pos_fanouts = <<>>
    /\ clause_queue = <<>>
    /\ processed_count = 0
    /\ prop = [node_event_count |-> <<>>, priority_queue |-> <<>>,
               implicit_deletion_count |-> 0]
    /\ line_count = 0
    /\ last_cmd = NoCmd
    /\ rup_steps = 0
    /\ explicit_deleted = {}
    /\ conflict_cids = {}
    /\ stored = {}
    /\ deleted_ids = {}
    /\ threading = opt.threading
    /\ queue_lock = 0
    /\ print_lock = 0
    /\ threads = <<>>
    /\ deletion_start = <<>>
    /\ cnf_weights = NoWeights
    /\ ring_value = <<>>
    /\ regular_count = q25_null
    /\ weighted_count = q25_null

\* lset_generation = 0 and no lset_array before the first lset_check_size
InitState(opt, icc, at) == InitLset(opt, icc, at, 0, <<>>)

\* the state main() hands to run(): the options set, nothing read
InitWith(opt) == InitState(opt, 0, "read_cnf")

Signals == {"SIGSEGV", "SIGFPE"}

\* the globals after a handler; an access outside an array either ends the
\* run with a signal or reads and writes the memory behind the array
Commit(g, next_pc, cmd) ==
    /\ \E e \in (IF g.undefined THEN {"SIGSEGV", g.error} ELSE {g.error}) :
          /\ error' = e
          /\ pc' = IF e \in Signals THEN "crash"
                   ELSE IF e # "" THEN "fail" ELSE next_pc
    /\ variable_limit' = g.variable_limit
    /\ lset_generation' = g.lset_generation
    /\ lset_array' = g.lset_array
    /\ clause_blocks' = g.clause_blocks
    /\ chunk_set' = g.chunk_set
    /\ chunk_used' = g.chunk_used
    /\ clause_last_id' = g.clause_last_id
    /\ clause_count' = g.clause_count
    /\ node_list' = g.node_list
    /\ node_count' = g.node_count
    /\ declared_root' = g.declared_root
    /\ root_clause_added' = g.root_clause_added
    /\ declared_unsatisfiable' = g.declared_unsatisfiable
    /\ proved_unsatisfiable' = g.proved_unsatisfiable
    /\ explicit_deletion_count' = g.explicit_deletion_count
    /\ implicit_deletion_count' = g.implicit_deletion_count
    /\ neg_fanouts' = g.neg_fanouts
    /\ pos_fanouts' = g.pos_fanouts
    /\ clause_queue' = g.clause_queue
    /\ processed_count' = g.processed_count
    /\ prop' = g.prop
    /\ rup_steps' = g.rup_steps
    /\ explicit_deleted' = g.explicit_deleted
    /\ conflict_cids' = g.conflict_cids
    /\ stored' = g.stored
    /\ deleted_ids' = g.deleted_ids
    /\ last_cmd' = cmd

RECURSIVE cnf_read_clauses(_, _, _, _)
cnf_read_clauses(g, clauses, i, icc) ==
    IF i > Len(clauses) \/ g.error # "" THEN g
    ELSE LET bad == \E k \in 1..Len(clauses[i]) : IABS(clauses[i][k]) > g.variable_limit
         IN  With(start_clause(g, i, icc), LAMBDA g1 :
             cnf_read_clauses(
                 IF bad THEN err_printf(g1, "clause_add_literal")
                 ELSE finish_clause(g1, clauses[i] \o <<0>>, "input"),
                 clauses, i + 1, icc))

\* cnf: the header's variable count, the clauses, and the projection comments
cnf_read(cnf) ==
    /\ pc = "read_cnf"
    /\ input_variable_count' = cnf.nvar
    /\ input_clause_count' = Len(cnf.clauses)
    /\ is_pkc' = cnf.pkc
    /\ cnf_weights' = cnf.weights
    /\ show_variables' = [v \in 1..cnf.nvar |-> IF cnf.pkc THEN v \in cnf.show ELSE FALSE]
    /\ Commit(cnf_read_clauses(
                  [Globals EXCEPT !.clause_blocks = <<NewBlock(1)>>,
                                  !.chunk_set = << <<>> >>,
                                  !.variable_limit = cnf.nvar],
                  cnf.clauses, 1, Len(cnf.clauses)),
              "read_cpog", NoCmd)
    /\ UNCHANGED << banner, check_add, check_delete, weak_mode, use_explicit_deletion,
                    skipping_rup, thread_limit, line_count, threading, thread_vars,
                    deletion_start, count_vars >>

\* one line of the CPOG file handed to its handler by cpog_read
Line(g, cmd) ==
    /\ pc = "read_cpog"
    /\ line_count' = line_count + 1
    /\ Commit(g, "read_cpog", cmd)
    /\ UNCHANGED << options, input_variable_count, input_clause_count, banner,
                    thread_vars, deletion_start,
                    cnf_weights, count_vars >>

cpog_read_r(tok) == Line(cpog_read_root(Globals, tok), Cmd("r", 0, 0, <<tok>>, <<>>))

cpog_read_a(cid, lits, hints) ==
    Line(cpog_add_clause(Globals, cid, lits, hints, FALSE), Cmd("a", cid, 0, lits, hints))

cpog_read_as(cid, lits, hints) ==
    Line(cpog_add_clause(Globals, cid, lits, hints, TRUE), Cmd("as", cid, 0, lits, hints))

cpog_read_d(cid, hints) ==
    Line(cpog_delete_clause(Globals, cid, hints), Cmd("d", cid, 0, <<>>, hints))

cpog_read_D(cids) ==
    Line(cpog_batch_delete_clauses(Globals, cids), Cmd("D", 0, 0, cids, <<>>))

cpog_read_p(cid, nid, toks) ==
    Line(cpog_add_product(Globals, cid, nid, toks), Cmd("p", cid, nid, toks, <<>>))

cpog_read_t(cid, nid, toks) ==
    Line(cpog_add_skolem(Globals, cid, nid, toks), Cmd("t", cid, nid, toks, <<>>))

cpog_read_s(cid, nid, toks, hints) ==
    Line(cpog_add_sum(Globals, cid, nid, toks, hints, FALSE),
         Cmd("s", cid, nid, toks, hints))

cpog_read_S(cid, nid, toks) ==
    Line(IF ~weak_mode THEN err_printf(Globals, "cpog_read")
         ELSE cpog_add_sum(Globals, cid, nid, toks, <<>>, TRUE),
         Cmd("S", cid, nid, toks, <<>>))

\* end of the CPOG file: cpog_final_root, up to the loop of run_deletion
cpog_read_eof ==
    /\ pc = "read_cpog"
    /\ With(cpog_final_root(Globals), LAMBDA g :
         LET threaded == threading /\ thread_limit > 1
             deleting == runs_deletion(Globals) /\ g.error = ""
         IN  /\ Commit(g,
                       IF ~runs_deletion(Globals) THEN "report"
                       ELSE IF threaded THEN "run_threads" ELSE "run_deletion",
                       Cmd("EOF", 0, 0, <<>>, <<>>))
             /\ deletion_start' = IF deleting THEN g ELSE deletion_start
             \* pthread_create for all but the last thread, which is main's
             /\ threads' = IF deleting /\ threaded
                           THEN [t \in 1..thread_limit |->
                                    [at |-> "lock", prop |-> new_propagator(g),
                                     cid_min |-> 0, cid_max |-> 0, took |-> <<>>]]
                           ELSE threads)
    /\ UNCHANGED << options, input_variable_count, input_clause_count, banner,
                    line_count, queue_lock, print_lock, cnf_weights, count_vars >>

\* a lock that excludes nobody
mutex_ignored(lock) == TRUE

\* pthread_mutex_lock returns once no thread holds the mutex
mutex_available(lock) == lock = 0

\* a step of a deletion thread that leaves the CNF, the options and the
\* output alone
ThreadStep(g, next_pc) ==
    /\ pc = "run_threads"
    /\ Commit(g, next_pc, last_cmd)
    /\ UNCHANGED << options, input_variable_count, input_clause_count, banner,
                    line_count, deletion_start,
                    cnf_weights, count_vars >>

\* next_deletion of thread t: pthread_mutex_lock(&queue_lock)
thread_lock(t) ==
    /\ threads[t].at = "lock"
    /\ mutex_available(queue_lock)
    /\ queue_lock' = t
    /\ print_lock' = print_lock
    /\ threads' = [threads EXCEPT ![t].at = "test"]
    /\ ThreadStep(Globals, "run_threads")

\* next_deletion of thread t: the test of processed_count, then either the
\* unlock and the return of false, or the read of cid_min.  After the return
\* deletion_thread calls data_printf(2, ...), which returns at once or, with
\* verb_level >= 2, takes print_lock
thread_test(t) ==
    /\ threads[t].at = "test"
    /\ IF processed_count >= Len(clause_queue)
       THEN /\ queue_lock' = 0
            /\ \E at \in {"done", "print"} : threads' = [threads EXCEPT ![t].at = at]
       ELSE /\ queue_lock' = queue_lock
            /\ threads' = [threads EXCEPT
                              ![t].at = "advance",
                              ![t].cid_min = clause_queue[processed_count + 1].cid_min]
    /\ print_lock' = print_lock
    /\ ThreadStep(Globals, "run_threads")

\* next_deletion of thread t: cid_max = clause_queue[processed_count++].cid_max
thread_advance(t) ==
    /\ threads[t].at = "advance"
    /\ processed_count < Len(clause_queue)
    /\ queue_lock' = queue_lock
    /\ print_lock' = print_lock
    /\ threads' = [threads EXCEPT
                      ![t].at = "delete_range",
                      ![t].cid_max = clause_queue[processed_count + 1].cid_max,
                      ![t].took = Append(@, [cid_min |-> threads[t].cid_min,
                                             cid_max |-> clause_queue[processed_count + 1].cid_max])]
    /\ ThreadStep([Globals EXCEPT !.processed_count = @ + 1], "run_threads")

\* next_deletion of thread t: cpog_delete_range with the thread's propagator,
\* then pthread_mutex_unlock(&queue_lock); err_printf takes print_lock before
\* it writes and exits
thread_delete_range(t) ==
    /\ threads[t].at = "delete_range"
    /\ With(cpog_delete_range([Globals EXCEPT !.prop = threads[t].prop],
                              threads[t].cid_min, threads[t].cid_max), LAMBDA r :
         /\ r.g.error # "" => mutex_available(print_lock)
         /\ queue_lock' = 0
         /\ print_lock' = print_lock
         /\ threads' = [threads EXCEPT ![t].at = "lock", ![t].prop = r.g.prop]
         /\ ThreadStep([r.g EXCEPT !.prop = prop],
                       IF r.hang THEN "hang" ELSE "run_threads"))

\* data_printf of thread t: pthread_mutex_lock(&print_lock)
thread_print(t) ==
    /\ threads[t].at = "print"
    /\ mutex_available(print_lock)
    /\ print_lock' = t
    /\ queue_lock' = queue_lock
    /\ threads' = [threads EXCEPT ![t].at = "printing"]
    /\ ThreadStep(Globals, "run_threads")

\* data_printf of thread t: the output, then pthread_mutex_unlock(&print_lock)
thread_printed(t) ==
    /\ threads[t].at = "printing"
    /\ print_lock' = 0
    /\ queue_lock' = queue_lock
    /\ threads' = [threads EXCEPT ![t].at = "done"]
    /\ ThreadStep(Globals, "run_threads")

\* run_deletion: deletion_thread has returned in main and pthread_join in all others
thread_join ==
    /\ \A t \in DOMAIN threads : threads[t].at = "done"
    /\ UNCHANGED thread_vars
    /\ ThreadStep(Globals, "report")

\* one pass of the loop of run_deletion
next_deletion ==
    /\ pc = "run_deletion"
    /\ IF processed_count >= Len(clause_queue)
       THEN /\ pc' = "report"
            /\ UNCHANGED << error, variable_limit, lset_generation, lset_array,
                            clause_blocks, chunk_set, chunk_used, clause_last_id,
                            clause_count, node_list, node_count, declared_root,
                            root_clause_added, declared_unsatisfiable,
                            proved_unsatisfiable, explicit_deletion_count,
                            implicit_deletion_count, neg_fanouts, pos_fanouts,
                            clause_queue, processed_count, prop, rup_steps,
                            explicit_deleted, conflict_cids, stored, deleted_ids,
                            last_cmd >>
       ELSE LET range == clause_queue[processed_count + 1]
            IN  With(cpog_delete_range(
                         [Globals EXCEPT !.processed_count = @ + 1],
                         range.cid_min, range.cid_max), LAMBDA r :
                    Commit(r.g, IF r.hang THEN "hang" ELSE "run_deletion", last_cmd))
    /\ UNCHANGED << options, input_variable_count, input_clause_count, banner,
                    line_count, thread_vars, deletion_start,
                    cnf_weights, count_vars >>

(***************************************************************************)
(* Counting.  A q25 number is n * 2^p with n odd or n = p = 0 (no weight    *)
(* read here has a factor 5); q25_null is the NULL pointer, the invalid    *)
(* number and an uninitialised q25_ptr                                     *)
(***************************************************************************)
RECURSIVE Pow2(_)
Pow2(k) == IF k <= 0 THEN 1 ELSE 2 * Pow2(k - 1)

RECURSIVE q25_normal(_, _)
q25_normal(n, p) ==
    IF n = 0 THEN [valid |-> TRUE, n |-> 0, p |-> 0]
    ELSE IF n % 2 = 0 THEN q25_normal(n \div 2, p + 1)
    ELSE [valid |-> TRUE, n |-> n, p |-> p]

q25_from_32(x) == q25_normal(x, 0)

q25_scale(q, p2) == IF q = q25_null THEN q25_null ELSE q25_normal(q.n, q.p + p2)

q25_mul(q1, q2) ==
    IF q1 = q25_null \/ q2 = q25_null THEN q25_null
    ELSE q25_normal(q1.n * q2.n, q1.p + q2.p)

q25_add(q1, q2) ==
    IF q1 = q25_null \/ q2 = q25_null THEN q25_null
    ELSE LET m == IF q1.p < q2.p THEN q1.p ELSE q2.p
         IN  q25_normal(q1.n * Pow2(q1.p - m) + q2.n * Pow2(q2.p - m), m)

q25_one_minus(q) ==
    IF q = q25_null THEN q25_null ELSE q25_add(q25_from_32(1), q25_normal(-q.n, q.p))

\* the reciprocal of a number other than a power of 2 (or 5) is invalid
q25_recip(q) ==
    IF q = q25_null THEN q25_null
    ELSE IF q.n = 1 \/ q.n = -1 THEN q25_normal(q.n, -q.p)
    ELSE q25_null

q25_is_one(q) == q # q25_null /\ q.n = 1 /\ q.p = 0

\* the ring_value field of node_list[idx], idx from 1
RingValueOf(ring, idx) == IF idx \in DOMAIN ring THEN ring[idx] ELSE q25_null

\* the loop over the children of np; val: the value so far
RECURSIVE ring_evaluate_children(_, _, _, _, _, _)
ring_evaluate_children(g, np, ring, input_weights, i, val) ==
    IF i > Len(np.children) THEN val
    ELSE LET clit == np.children[i]
             cid == IABS(clit)
             cval == IF cid <= input_variable_count THEN input_weights[cid]
                     ELSE RingValueOf(ring, node_find(g, cid) + 1)
             sval == IF clit < 0 THEN q25_one_minus(cval) ELSE cval
         IN  ring_evaluate_children(g, np, ring, input_weights, i + 1,
                 IF np.type = "product" THEN q25_mul(val, sval) ELSE q25_add(val, sval))

\* the first loop of ring_evaluate from node id on; r: the ring values, the
\* local val and the error so far
RECURSIVE ring_evaluate_loop(_, _, _, _)
ring_evaluate_loop(g, input_weights, id, r) ==
    IF id > g.declared_root THEN r
    ELSE With(node_find(g, id), LAMBDA idx :
         \* np->type with np = NULL
         IF idx = -1 THEN [r EXCEPT !.error = "SIGSEGV"]
         ELSE With(g.node_list[idx + 1], LAMBDA np :
              IF np.type \notin {"product", "skolem", "sum"}
              THEN [r EXCEPT !.error = "ring_evaluate"]
              ELSE With(IF np.type = "skolem" THEN q25_from_32(1)
                        ELSE ring_evaluate_children(g, np, r.ring, input_weights, 1,
                                 q25_from_32(IF np.type = "sum" THEN 0 ELSE 1)),
                        LAMBDA val :
                   ring_evaluate_loop(g, input_weights, id + 1,
                       [r EXCEPT !.val = val,
                                 !.ring = [i \in 1..Len(g.node_list) |->
                                              IF i = idx + 1 THEN val
                                              ELSE RingValueOf(r.ring, i)]]))))

\* the second loop of ring_evaluate, which the variant below leaves out
ring_values_freed(g, ring) ==
    [i \in DOMAIN ring |->
        IF i + input_variable_count <= g.declared_root THEN q25_null ELSE ring[i]]

ring_values_kept(g, ring) == ring

\* result: the value returned, the ring_value fields afterwards, and the
\* error; the local val is not initialised when the first loop has no pass
ring_evaluate(g, ring, input_weights) ==
    IF g.declared_unsatisfiable
    THEN [val |-> q25_from_32(0), ring |-> ring, error |-> ""]
    ELSE With(ring_evaluate_loop(g, input_weights, input_variable_count + 1,
                                 [val |-> q25_null, ring |-> ring, error |-> ""]),
              LAMBDA r :
         IF r.error # "" THEN r
         ELSE [r EXCEPT !.ring = ring_values_freed(g, r.ring)])

\* count_regular scaling by the number of input variables in either mode
count_regular_all_variables(g, ring) ==
    LET half == q25_scale(q25_from_32(1), -1)
    IN  With(ring_evaluate(g, ring, [v \in 1..input_variable_count |-> half]),
             LAMBDA density : [density EXCEPT !.val = q25_scale(density.val, input_variable_count)])

count_regular(g, ring) ==
    LET nvar == IF is_pkc
                THEN Cardinality({v \in 1..input_variable_count : show_variables[v]})
                ELSE input_variable_count
        half == q25_scale(q25_from_32(1), -1)
    IN  With(ring_evaluate(g, ring, [v \in 1..input_variable_count |-> half]),
             LAMBDA density : [density EXCEPT !.val = q25_scale(density.val, nvar)])

\* the weight lines of cnf_read_weights: positive_weights and negative_weights
RECURSIVE cnf_read_weight_lines(_, _, _)
cnf_read_weight_lines(lines, i, r) ==
    IF i > Len(lines) \/ r.error # "" THEN r
    ELSE LET lit == lines[i].lit
             var == IABS(lit)
         IN  IF var > input_variable_count
             THEN [r EXCEPT !.error = "cnf_read_weights"]
             ELSE IF (IF lit < 0 THEN r.negative_weights[var]
                      ELSE r.positive_weights[var]) # q25_null
             THEN [r EXCEPT !.error = "cnf_read_weights"]
             ELSE cnf_read_weight_lines(lines, i + 1,
                      IF lit < 0 THEN [r EXCEPT !.negative_weights[var] = lines[i].val]
                      ELSE [r EXCEPT !.positive_weights[var] = lines[i].val])

\* "Fix up weights": input_weights and rescale from variable var on
RECURSIVE cnf_fix_weights(_, _)
cnf_fix_weights(r, var) ==
    IF var > input_variable_count \/ r.error # "" THEN r
    ELSE LET pwt == r.positive_weights[var]
             nwt == r.negative_weights[var]
             sum == IF nwt = q25_null THEN q25_from_32(2) ELSE q25_add(nwt, pwt)
         IN  cnf_fix_weights(
                 IF nwt = q25_null /\ pwt = q25_null
                 THEN [r EXCEPT !.input_weights[var] = q25_recip(sum),
                                !.rescale = q25_mul(@, sum)]
                 ELSE IF nwt = q25_null THEN [r EXCEPT !.input_weights[var] = pwt]
                 ELSE IF pwt = q25_null
                 THEN [r EXCEPT !.input_weights[var] = q25_one_minus(nwt)]
                 ELSE IF q25_is_one(sum) THEN [r EXCEPT !.input_weights[var] = pwt]
                 ELSE IF q25_recip(sum) = q25_null
                 THEN [r EXCEPT !.error = "cnf_read_weights"]
                 ELSE [r EXCEPT !.input_weights[var] = q25_mul(pwt, q25_recip(sum)),
                                !.rescale = q25_mul(@, sum)],
                 var + 1)

\* result: whether the file has the wmc header, input_weights, rescale, error
cnf_read_weights(lines) ==
    LET nulls == [v \in 1..input_variable_count |-> q25_null]
        start == [found |-> cnf_weights.wmc, positive_weights |-> nulls,
                  negative_weights |-> nulls, input_weights |-> nulls,
                  rescale |-> q25_from_32(1), error |-> ""]
    IN  IF ~start.found THEN start
        ELSE cnf_fix_weights(cnf_read_weight_lines(lines, 1, start), 1)

\* result as of ring_evaluate; val is NULL when cnf_read_weights returns false
count_weighted(g, ring) ==
    With(cnf_read_weights(cnf_weights.lines), LAMBDA w :
        IF ~w.found THEN [val |-> q25_null, ring |-> ring, error |-> ""]
        ELSE IF w.error # "" THEN [val |-> q25_null, ring |-> ring, error |-> w.error]
        ELSE With(ring_evaluate(g, ring, w.input_weights), LAMBDA r :
                 [r EXCEPT !.val = q25_mul(@, w.rescale)]))

\* what run() writes for a count: nothing for NULL or an invalid number
written_count(val) == val

\* the verdict of run()
report ==
    /\ pc = "report"
    /\ banner' = run_banner(Globals)
    /\ Commit(IF run_banner(Globals) = "" THEN err_printf(Globals, "run") ELSE Globals,
              "count", last_cmd)
    /\ UNCHANGED << options, input_variable_count, input_clause_count, line_count,
                    thread_vars, deletion_start,
                    cnf_weights, count_vars >>

\* the rest of run(): nothing in weak mode, else count_regular and
\* count_weighted; a count that is NULL or not valid is not written, and one
\* computed from an uninitialised or NULL q25_ptr is undefined behaviour
count ==
    /\ pc = "count"
    /\ IF weak_mode
       THEN /\ Commit(Globals, "done", last_cmd)
            /\ UNCHANGED count_vars
       ELSE With(count_regular(Globals, ring_value), LAMBDA mc :
            IF mc.error # "" \/ mc.val = q25_null
            THEN /\ Commit([Globals EXCEPT !.error = mc.error,
                                           !.undefined = mc.error = ""],
                           "done", last_cmd)
                 /\ ring_value' = mc.ring
                 /\ UNCHANGED << regular_count, weighted_count >>
            ELSE With(count_weighted(Globals, mc.ring), LAMBDA wmc :
                 /\ Commit([Globals EXCEPT !.error = wmc.error,
                                           !.undefined = wmc.error = "" /\ cnf_weights.wmc
                                                           /\ wmc.val = q25_null],
                           "done", last_cmd)
                 /\ ring_value' = wmc.ring
                 /\ regular_count' = written_count(mc.val)
                 /\ weighted_count' =
                       IF wmc.error # "" THEN weighted_count ELSE written_count(wmc.val)))
    /\ UNCHANGED << options, input_variable_count, input_clause_count, banner,
                    line_count, thread_vars, deletion_start, cnf_weights >>

(***************************************************************************)
(* Specification Spec: a formula of two clauses, a POG of degree-0         *)
(* products, and proofs made of r, p, a, as, d and D lines                 *)
(***************************************************************************)
MaxLines == 4

Option(add, explicit, nthread) ==
    [check_add |-> add, check_delete |-> TRUE, weak_mode |-> FALSE,
     use_explicit_deletion |-> explicit, skipping_rup |-> FALSE, thread_limit |-> nthread,
     threading |-> FALSE]

\* the command lines "-n 1" and "-d -n 1"
Options == { Option(TRUE, FALSE, 1), Option(TRUE, TRUE, 1) }

Cnf(nvar, clauses) ==
    [nvar |-> nvar, clauses |-> clauses, pkc |-> FALSE, show |-> {}, weights |-> NoWeights]

\* a formula with the comment "c t pmc" before and "c p show ... 0" after its header
Pkc(nvar, clauses, show) ==
    [nvar |-> nvar, clauses |-> clauses, pkc |-> TRUE, show |-> show, weights |-> NoWeights]

Formulas == { Cnf(2, << <<1, 2>>, <<1>> >>), Pkc(2, << <<1, -1>>, <<2>> >>, {1}) }

RootTokens == {0, 3, 4}
NodeIds == {3, 4}
AddedClauses == { <<>>, <<1>>, <<3>>, <<1, 3>> }
HintLists == { <<>>, <<2>>, <<3>>, <<2, 4>> }
DeletedIds == {1, 2, 3}
BatchLists == { <<3>>, <<4>>, <<1>>, <<3, 1>> }

Init == \E opt \in Options : InitWith(opt)

ReadCnf == \E cnf \in Formulas : cnf_read(cnf)

ReadRoot == line_count < MaxLines /\ \E tok \in RootTokens : cpog_read_r(tok)

ReadAdd ==
    /\ line_count < MaxLines
    /\ \E cid \in {clause_last_id, clause_last_id + 1, clause_last_id + 2},
          lits \in AddedClauses, hints \in HintLists : cpog_read_a(cid, lits, hints)

ReadAddStructural ==
    /\ line_count < MaxLines
    /\ \E lits \in AddedClauses, hints \in HintLists :
          cpog_read_as(clause_last_id + 1, lits, hints)

ReadDelete ==
    /\ line_count < MaxLines
    /\ \E cid \in DeletedIds, hints \in HintLists : cpog_read_d(cid, hints)

ReadBatchDelete == line_count < MaxLines /\ \E cids \in BatchLists : cpog_read_D(cids)

ReadProduct ==
    /\ line_count < MaxLines
    /\ \E cid \in {clause_last_id, clause_last_id + 1}, nid \in NodeIds :
          cpog_read_p(cid, nid, <<>>)

ReadSkolem ==
    /\ line_count < MaxLines
    /\ \E nid \in NodeIds : cpog_read_t(clause_last_id + 1, nid, <<2>>)

FinalRoot == cpog_read_eof

RunDeletion == next_deletion

Report == report

Count == count

Next ==
    \/ ReadCnf
    \/ ReadRoot
    \/ ReadAdd
    \/ ReadAddStructural
    \/ ReadDelete
    \/ ReadBatchDelete
    \/ ReadProduct
    \/ ReadSkolem
    \/ FinalRoot
    \/ RunDeletion
    \/ Report
    \/ Count

Spec == Init /\ [][Next]_vars

(***************************************************************************)
(* Specification SpecPog: the formula (1 2), a POG over the nodes 3, 4 and *)
(* 5, read with and without -A and followed by the implicit deletion       *)
(***************************************************************************)
MaxPogLines == 5

PogOptions == { Option(TRUE, FALSE, 1), Option(FALSE, FALSE, 1) }

\* the formula (1 2), plain and projected onto the data variable 1
PogFormulas == { Cnf(2, << <<1, 2>> >>), Pkc(2, << <<1, 2>> >>, {1}) }

PogRootTokens == {4, 5}

\* node id and child tokens of the p lines
ProductLines == { <<4, <<2>> >>, <<3, <<-1, 2>> >>, <<3, <<1, 4>> >>, <<3, <<1, 3>> >>,
                  <<3, <<1, -1>> >> }

\* node id and child tokens of the s lines
SumLines == { <<5, <<3, -1>> >>, <<4, <<1, 3>> >> }

\* the hint lists of the a lines: none, or the clauses of sum 4, product 3 and the input
RootHints == { <<>>, <<6, 7, 2, 1>> }

PogInit == \E opt \in PogOptions : InitWith(opt)

PogReadCnf == \E cnf \in PogFormulas : cnf_read(cnf)

PogReadRoot == line_count < MaxPogLines /\ \E tok \in PogRootTokens : cpog_read_r(tok)

PogReadProduct ==
    /\ line_count < MaxPogLines
    /\ \E ln \in ProductLines : cpog_read_p(clause_last_id + 1, ln[1], ln[2])

PogReadSum ==
    /\ line_count < MaxPogLines
    /\ \E cid \in {clause_last_id, clause_last_id + 1}, ln \in SumLines,
          hints \in {<<>>} \cup { <<c>> : c \in 2..(clause_last_id + 1) } :
          cpog_read_s(cid, ln[1], ln[2], hints)

PogReadAdd ==
    /\ line_count < MaxPogLines
    /\ \E tok \in PogRootTokens, hints \in RootHints \cup {<<clause_last_id + 1>>} :
          cpog_read_a(clause_last_id + 1, <<tok>>, hints)

PogNext ==
    \/ PogReadCnf
    \/ PogReadRoot
    \/ PogReadProduct
    \/ PogReadSum
    \/ PogReadAdd
    \/ FinalRoot
    \/ RunDeletion
    \/ Report
    \/ Count

SpecPog == PogInit /\ [][PogNext]_vars

(***************************************************************************)
(* Specification SpecThreads: a build with THREADING, run with -A and with *)
(* no -n or -n 1 .. MaxThreads, on the formula (1 2)(1) and a POG of one   *)
(* product, followed by the implicit deletion in the deletion threads      *)
(***************************************************************************)
MaxThreads == 2

MaxThreadLines == 3

\* "-A" alone leaves thread_limit at its initial value 0
ThreadOptions ==
    { [check_add |-> FALSE, check_delete |-> TRUE, weak_mode |-> FALSE,
       use_explicit_deletion |-> FALSE, skipping_rup |-> FALSE,
       thread_limit |-> n, threading |-> TRUE] : n \in 0..MaxThreads }

ThreadFormulas == { Cnf(2, << <<1, 2>>, <<1>> >>) }

ThreadRootTokens == {3}

\* node id and child tokens of the p lines
ThreadProductLines == { <<3, <<1>> >>, <<3, <<1, 3>> >> }

ThreadInit == \E opt \in ThreadOptions : InitWith(opt)

ThreadReadCnf == \E cnf \in ThreadFormulas : cnf_read(cnf)

ThreadReadRoot ==
    line_count < MaxThreadLines /\ \E tok \in ThreadRootTokens : cpog_read_r(tok)

ThreadReadProduct ==
    /\ line_count < MaxThreadLines
    /\ \E ln \in ThreadProductLines : cpog_read_p(clause_last_id + 1, ln[1], ln[2])

ThreadReadAdd ==
    /\ line_count < MaxThreadLines
    /\ \E tok \in ThreadRootTokens : cpog_read_a(clause_last_id + 1, <<tok>>, <<>>)

ThreadLock == \E t \in DOMAIN threads : thread_lock(t)

ThreadTest == \E t \in DOMAIN threads : thread_test(t)

ThreadAdvance == \E t \in DOMAIN threads : thread_advance(t)

ThreadDeleteRange == \E t \in DOMAIN threads : thread_delete_range(t)

ThreadPrint == \E t \in DOMAIN threads : thread_print(t)

ThreadPrinted == \E t \in DOMAIN threads : thread_printed(t)

ThreadJoin == thread_join

ThreadNext ==
    \/ ThreadReadCnf
    \/ ThreadReadRoot
    \/ ThreadReadProduct
    \/ ThreadReadAdd
    \/ FinalRoot
    \/ RunDeletion
    \/ ThreadLock
    \/ ThreadTest
    \/ ThreadAdvance
    \/ ThreadDeleteRange
    \/ ThreadPrint
    \/ ThreadPrinted
    \/ ThreadJoin
    \/ Report
    \/ Count

SpecThreads == ThreadInit /\ [][ThreadNext]_vars

(***************************************************************************)
(* Specification SpecStale: the runs of SpecThreads on a POG with a second *)
(* product node, 4 = AND(1), that no other node and no clause of the       *)
(* formula refers to                                                       *)
(***************************************************************************)
MaxStaleLines == 4

StaleProductLines == { <<3, <<1>> >>, <<4, <<1>> >> }

StaleReadRoot ==
    line_count < MaxStaleLines /\ \E tok \in ThreadRootTokens : cpog_read_r(tok)

StaleReadProduct ==
    /\ line_count < MaxStaleLines
    /\ \E ln \in StaleProductLines : cpog_read_p(clause_last_id + 1, ln[1], ln[2])

StaleReadAdd ==
    /\ line_count < MaxStaleLines
    /\ \E tok \in ThreadRootTokens : cpog_read_a(clause_last_id + 1, <<tok>>, <<>>)

StaleNext ==
    \/ ThreadReadCnf
    \/ StaleReadRoot
    \/ StaleReadProduct
    \/ StaleReadAdd
    \/ FinalRoot
    \/ RunDeletion
    \/ ThreadLock
    \/ ThreadTest
    \/ ThreadAdvance
    \/ ThreadDeleteRange
    \/ ThreadPrint
    \/ ThreadPrinted
    \/ ThreadJoin
    \/ Report
    \/ Count

SpecStale == ThreadInit /\ [][StaleNext]_vars

(***************************************************************************)
(* Specification SpecCount: runs with and without -A and -D on an          *)
(* unsatisfiable formula and on (1 2), plain, projected and weighted, with *)
(* a POG of up to two nodes, up to the counts written by run()             *)
(***************************************************************************)
MaxCountLines == 4

CountOptions ==
    { [check_add |-> add, check_delete |-> del, weak_mode |-> FALSE,
       use_explicit_deletion |-> FALSE, skipping_rup |-> FALSE,
       thread_limit |-> 1, threading |-> FALSE] : add \in BOOLEAN, del \in BOOLEAN }

\* a formula with the comment "c t wmc" and the lines "c p weight lit val 0"
Wmc(nvar, clauses, lines) ==
    [nvar |-> nvar, clauses |-> clauses, pkc |-> FALSE, show |-> {},
     weights |-> [wmc |-> TRUE, lines |-> lines]]

\* (1)(-1); (1 2); (1 2) projected onto variable 1; (1 2) with weight 0.25 for
\* 1; (1)(2)
CountFormulas ==
    { Cnf(1, << <<1>>, <<-1>> >>),
      Cnf(2, << <<1, 2>> >>),
      Pkc(2, << <<1, 2>> >>, {1}),
      Wmc(2, << <<1, 2>> >>, << [lit |-> 1, val |-> q25_scale(q25_from_32(1), -2)] >>),
      Cnf(2, << <<1>>, <<2>> >>) }

CountRootTokens == {0, 1, 3, 4}

\* node id and child tokens of the p, t and s lines
CountProductLines == { <<3, <<-1, 2>> >>, <<3, <<>> >>, <<4, <<1, 2>> >> }

CountSkolemLines == { <<3, <<2>> >> }

CountSumLines == { <<4, <<1, 3>> >> }

\* the mutex hint of the s line: the second clause of product 3
CountSumHints == { <<3>> }

\* literals and hints of the a lines
CountAddLines ==
    { << <<>>, <<1, 2>> >>, << <<>>, <<>> >>, << <<4>>, <<6, 7, 2, 1>> >>,
      << <<4>>, <<1, 2, 3>> >>, << <<3>>, <<>> >>, << <<1>>, <<>> >> }

CountInit == \E opt \in CountOptions : InitWith(opt)

CountReadCnf == \E cnf \in CountFormulas : cnf_read(cnf)

CountReadRoot ==
    line_count < MaxCountLines /\ \E tok \in CountRootTokens : cpog_read_r(tok)

CountReadProduct ==
    /\ line_count < MaxCountLines
    /\ \E ln \in CountProductLines : cpog_read_p(clause_last_id + 1, ln[1], ln[2])

CountReadSkolem ==
    /\ line_count < MaxCountLines
    /\ \E ln \in CountSkolemLines : cpog_read_t(clause_last_id + 1, ln[1], ln[2])

CountReadSum ==
    /\ line_count < MaxCountLines
    /\ \E ln \in CountSumLines, hints \in CountSumHints :
          cpog_read_s(clause_last_id + 1, ln[1], ln[2], hints)

CountReadAdd ==
    /\ line_count < MaxCountLines
    /\ \E ln \in CountAddLines : cpog_read_a(clause_last_id + 1, ln[1], ln[2])

CountNext ==
    \/ CountReadCnf
    \/ CountReadRoot
    \/ CountReadProduct
    \/ CountReadSkolem
    \/ CountReadSum
    \/ CountReadAdd
    \/ FinalRoot
    \/ RunDeletion
    \/ Report
    \/ Count

SpecCount == CountInit /\ [][CountNext]_vars

(***************************************************************************)
(* Specification SpecRup: a and as lines with their hint lists, checked    *)
(* and with -A, strict and lenient, on (1 2)(-1)(3 -2 3)(-3), before and   *)
(* after the product node 4 = AND(1, 2) is declared                        *)
(***************************************************************************)
MaxRupLines == 3

RupOptions ==
    { [check_add |-> add, check_delete |-> TRUE, weak_mode |-> FALSE,
       use_explicit_deletion |-> FALSE, skipping_rup |-> skip,
       thread_limit |-> 1, threading |-> FALSE] : add \in BOOLEAN, skip \in BOOLEAN }

RupFormulas == { Cnf(3, << <<1, 2>>, <<-1>>, <<3, -2, 3>>, <<-3>> >>) }

\* node id and child tokens of the p line; its clauses get the ids 5, 6, 7
\* when it is the first line
RupProductLines == { <<4, <<1, 2>> >> }

\* literals and hints of the a lines
RupAddLines ==
    { << <<3>>, <<2, 1, 3>> >>,       \* units -1 and 2, conflict on (3 -2 3)
      << <<2>>, <<2, 1>> >>,          \* conflict on the last hint
      << <<2>>, <<2, 1, 9>> >>,       \* conflict before a hint that is no clause
      << <<2>>, <<2, 1, 6>> >>,       \* conflict before a hint that may be a clause
      << <<2>>, <<9, 2, 1>> >>,       \* a hint that is no clause before the conflict
      << <<3>>, <<1, 2, 1, 3>> >>,    \* (1 2) has two unassigned literals at first
      << <<-2>>, <<1, 3, 4>> >>,      \* (1 2) has a satisfied literal
      << <<>>, <<2, 1, 3, 4>> >>,     \* (3 -2 3) gives the unit 3
      << <<>>, <<2, 1>> >>,           \* no conflict
      << <<-1, 1>>, <<2>> >>,         \* a literal with its complement
      << <<1, -1>>, <<2>> >>,
      << <<2, 5>>, <<2, 1>> >>,       \* variable 5 is not a node
      << <<2, 14>>, <<2, 1>> >> }

\* literals and hints of the as lines
RupStructuralLines ==
    { << <<-4, 1>>, <<6>> >>,         \* conflict on the clause (-4 1) of node 4
      << <<-4, 1>>, <<6, 1>> >>,      \* an input clause after the conflict
      << <<-4, 1>>, <<1, 6>> >>,      \* an input clause before the conflict
      << <<4, -4>>, <<6>> >> }

RupInit == \E opt \in RupOptions : InitWith(opt)

RupReadCnf == \E cnf \in RupFormulas : cnf_read(cnf)

RupReadProduct ==
    /\ line_count < MaxRupLines
    /\ \E ln \in RupProductLines : cpog_read_p(clause_last_id + 1, ln[1], ln[2])

RupReadAdd ==
    /\ line_count < MaxRupLines
    /\ \E ln \in RupAddLines : cpog_read_a(clause_last_id + 1, ln[1], ln[2])

RupReadAddStructural ==
    /\ line_count < MaxRupLines
    /\ \E ln \in RupStructuralLines : cpog_read_as(clause_last_id + 1, ln[1], ln[2])

RupNext ==
    \/ RupReadCnf
    \/ RupReadProduct
    \/ RupReadAdd
    \/ RupReadAddStructural

SpecRup == RupInit /\ [][RupNext]_vars

(***************************************************************************)
(* Specification SpecWeak: runs with -w, checked and with -A, on (1 2 3),  *)
(* (1 2) and (1 2)(3) over three variables, with a weak sum of one to      *)
(* three literals and a product over it, through the reverse implication   *)
(* of the input clauses                                                    *)
(***************************************************************************)
MaxWeakLines == 4

WeakOptions ==
    { [check_add |-> add, check_delete |-> TRUE, weak_mode |-> TRUE,
       use_explicit_deletion |-> FALSE, skipping_rup |-> FALSE,
       thread_limit |-> 1, threading |-> FALSE] : add \in BOOLEAN }

WeakFormulas ==
    { Cnf(3, << <<1, 2, 3>> >>), Cnf(3, << <<1, 2>> >>), Cnf(3, << <<1, 2>>, <<3>> >>) }

WeakRootTokens == {4, 5}

\* node id and child tokens of the S and p lines
WeakSumLines == { <<4, <<1, 2, 3>> >>, <<4, <<1, 2>> >>, <<4, <<1>> >> }

WeakProductLines == { <<5, <<4, 3>> >> }

\* literals and hints of the a lines: the root clause of each formula
WeakAddLines ==
    { << <<4>>, <<3, 4, 5, 1>> >>, << <<4>>, <<3, 4, 1>> >>,
      << <<5>>, <<2, 6, 4, 5, 1>> >> }

WeakInit == \E opt \in WeakOptions : InitWith(opt)

WeakReadCnf == \E cnf \in WeakFormulas : cnf_read(cnf)

WeakReadRoot ==
    line_count < MaxWeakLines /\ \E tok \in WeakRootTokens : cpog_read_r(tok)

WeakReadSum ==
    /\ line_count < MaxWeakLines
    /\ \E ln \in WeakSumLines : cpog_read_S(clause_last_id + 1, ln[1], ln[2])

WeakReadProduct ==
    /\ line_count < MaxWeakLines
    /\ \E ln \in WeakProductLines : cpog_read_p(clause_last_id + 1, ln[1], ln[2])

WeakReadAdd ==
    /\ line_count < MaxWeakLines
    /\ \E ln \in WeakAddLines : cpog_read_a(clause_last_id + 1, ln[1], ln[2])

WeakNext ==
    \/ WeakReadCnf
    \/ WeakReadRoot
    \/ WeakReadSum
    \/ WeakReadProduct
    \/ WeakReadAdd
    \/ FinalRoot
    \/ RunDeletion
    \/ Report
    \/ Count

SpecWeak == WeakInit /\ [][WeakNext]_vars

(***************************************************************************)
(* Specification SpecHeap: the priority queue of one propagator.  The run  *)
(* -A -n 1 on (1) reads r, MaxHeapNodes p lines and the root clause, and   *)
(* cpog_final_root creates the propagator; from there on the calls that    *)
(* rup_run_input makes on it, priority_add through process_fanout and the  *)
(* head of its loop, are taken one at a time in any order                  *)
(***************************************************************************)
MaxHeapNodes == 5

HeapOptions ==
    { [check_add |-> FALSE, check_delete |-> TRUE, weak_mode |-> FALSE,
       use_explicit_deletion |-> FALSE, skipping_rup |-> FALSE,
       thread_limit |-> 1, threading |-> FALSE] }

HeapFormulas == { Cnf(1, << <<1>> >>) }

HeapInit == \E opt \in HeapOptions : InitWith(opt)

HeapReadCnf == \E cnf \in HeapFormulas : cnf_read(cnf)

\* r names the last node
HeapReadRoot ==
    line_count = 0 /\ cpog_read_r(input_variable_count + MaxHeapNodes)

\* node 1 + k = AND(1) on line k
HeapReadProduct ==
    /\ line_count \in 1..MaxHeapNodes
    /\ cpog_read_p(clause_last_id + 1, input_variable_count + line_count, <<1>>)

HeapReadAdd ==
    /\ line_count = MaxHeapNodes + 1
    /\ cpog_read_a(clause_last_id + 1, <<declared_root>>, <<>>)

\* the step changes the propagator only
HeapStep(p) ==
    /\ pc = "run_deletion"
    /\ prop' = p
    /\ UNCHANGED << pc, error, banner, options, input_variable_count, input_clause_count,
                    variable_limit, lset_generation, lset_array, clause_blocks,
                    chunk_set, chunk_used, clause_last_id, clause_count, node_list,
                    node_count, declared_root, root_clause_added,
                    declared_unsatisfiable, proved_unsatisfiable,
                    explicit_deletion_count, implicit_deletion_count, neg_fanouts,
                    pos_fanouts, clause_queue, processed_count, line_count, last_cmd,
                    rup_steps, explicit_deleted, conflict_cids, stored, deleted_ids,
                    thread_vars, deletion_start, cnf_weights, count_vars >>

\* process_fanout's call priority_add(prop, fanouts[i])
HeapAdd ==
    \E var \in (input_variable_count + 1)..(input_variable_count + node_count) :
        HeapStep(priority_add(prop, var))

\* the head of rup_run_input's loop: priority_next, and the counter of the
\* node it returned cleared
HeapPop ==
    With(priority_next(prop), LAMBDA nx :
        /\ nx.var > 0
        /\ HeapStep([nx.p EXCEPT !.node_event_count[var_to_index(nx.var)] = 0]))

HeapNext ==
    \/ HeapReadCnf
    \/ HeapReadRoot
    \/ HeapReadProduct
    \/ HeapReadAdd
    \/ FinalRoot
    \/ HeapAdd
    \/ HeapPop

SpecHeap == HeapInit /\ [][HeapNext]_vars

(***************************************************************************)
(* Specification SpecLset: the literal set by itself.  lset_clear and      *)
(* lset_add_lit are called in any order, from the start of a run and from  *)
(* MaxLsetClears calls of lset_clear before the generation reaches         *)
(* INT_MAX.  The increment of INT_MAX is a signed overflow, which is       *)
(* undefined: each call of lset_clear takes what either build makes of it  *)
(***************************************************************************)
MaxLsetClears == 2

LsetOptions == { Option(TRUE, FALSE, 1) }

\* the literals added: variables 1 and 2, and 11, beyond the initial size
LsetLiterals == {1, -1, 2, -2, 11}

\* the generation at the start, and the array at that time: empty before
\* the first call, later stamped by earlier generations
LsetStarts ==
    { <<0, <<>> >>,
      <<INT_MAX - MaxLsetClears, [i \in 1..MIN_SIZE |-> 0]>>,
      <<INT_MAX - MaxLsetClears,
        [i \in 1..MIN_SIZE |-> IF i = 1 THEN -(INT_MAX - MaxLsetClears)
                               ELSE IF i = 2 THEN 7 ELSE 0]>> }

LsetInit ==
    \E opt \in LsetOptions, st \in LsetStarts : InitLset(opt, 0, "lset", st[1], st[2])

\* the step changes the literal set only; last_cmd names the call
LsetStep(g, cmd) ==
    /\ pc = "lset"
    /\ lset_generation' = g.lset_generation
    /\ lset_array' = g.lset_array
    /\ last_cmd' = cmd
    /\ UNCHANGED << pc, error, banner, options, input_variable_count, input_clause_count,
                    variable_limit, clause_blocks, chunk_set, chunk_used,
                    clause_last_id, clause_count, node_list, node_count,
                    declared_root, root_clause_added, declared_unsatisfiable,
                    proved_unsatisfiable, explicit_deletion_count,
                    implicit_deletion_count, neg_fanouts, pos_fanouts, clause_queue,
                    processed_count, prop, line_count, rup_steps, explicit_deleted,
                    conflict_cids, stored, deleted_ids, thread_vars, deletion_start,
                    cnf_weights, count_vars >>

\* lset_clear, while the generation is within MaxLsetClears of either end
LsetClear ==
    /\ \/ lset_generation < MaxLsetClears
       \/ lset_generation >= INT_MAX - MaxLsetClears
    /\ \E g \in {lset_clear(Globals), lset_clear_folded(Globals)} :
          LsetStep(g, Cmd("lset_clear", 0, 0, <<>>, <<>>))

LsetAdd ==
    \E lit \in LsetLiterals :
        LsetStep(lset_add_lit(Globals, lit).g, Cmd("lset_add_lit", 0, 0, <<lit>>, <<>>))

LsetNext ==
    \/ LsetClear
    \/ LsetAdd

SpecLset == LsetInit /\ [][LsetNext]_vars

(***************************************************************************)
(* Specification SpecDeps: the formula (1 2 3), plain and projected onto   *)
(* the data variables 1 and 2, read with -w and followed by p, s, S and t  *)
(* lines whose arguments come in any order and may repeat a variable       *)
(***************************************************************************)
MaxDepLines == 3

DepOptions ==
    { [check_add |-> FALSE, check_delete |-> TRUE, weak_mode |-> weak,
       use_explicit_deletion |-> FALSE, skipping_rup |-> FALSE,
       thread_limit |-> 1, threading |-> FALSE] : weak \in BOOLEAN }

DepFormulas == { Cnf(3, << <<1, 2, 3>> >>), Pkc(3, << <<1, 2, 3>> >>, {1, 2}) }

DepNodeIds == {4, 5}

\* child tokens of the p lines
DepProductLines == { <<2, 1>>, <<1, 2>>, <<-1, 1>>, <<4, 3>>, <<4, 1>> }

\* child tokens of the s and S lines
DepSumLines == { <<2, 1>>, <<1, -1>>, <<4, 1>>, <<4, 4>> }

\* child tokens of the t lines
DepSkolemLines == { <<3>>, <<3, -3>> }

DepInit == \E opt \in DepOptions : InitWith(opt)

DepReadCnf == \E cnf \in DepFormulas : cnf_read(cnf)

DepReadProduct ==
    /\ line_count < MaxDepLines
    /\ \E nid \in DepNodeIds, toks \in DepProductLines :
          cpog_read_p(clause_last_id + 1, nid, toks)

DepReadSum ==
    /\ line_count < MaxDepLines
    /\ \E nid \in DepNodeIds, toks \in DepSumLines, hints \in {<<>>, <<2>>} :
          cpog_read_s(clause_last_id + 1, nid, toks, hints)

DepReadWeakSum ==
    /\ line_count < MaxDepLines
    /\ \E nid \in DepNodeIds, toks \in DepSumLines :
          cpog_read_S(clause_last_id + 1, nid, toks)

DepReadSkolem ==
    /\ line_count < MaxDepLines
    /\ \E nid \in DepNodeIds, toks \in DepSkolemLines :
          cpog_read_t(clause_last_id + 1, nid, toks)

DepNext ==
    \/ DepReadCnf
    \/ DepReadProduct
    \/ DepReadSum
    \/ DepReadWeakSum
    \/ DepReadSkolem

SpecDeps == DepInit /\ [][DepNext]_vars

(***************************************************************************)
(* Specification SpecQueue: setup_deletion_queue applied to the clause     *)
(* count of a CNF header and to the thread limit of -n 1 .. MaxQueueThreads *)
(***************************************************************************)
MaxClauses == 510

MaxQueueThreads == 3

QueueOptions ==
    { [check_add |-> FALSE, check_delete |-> TRUE, weak_mode |-> FALSE,
       use_explicit_deletion |-> FALSE, skipping_rup |-> FALSE,
       thread_limit |-> n, threading |-> th] :
         n \in 1..MaxQueueThreads, th \in BOOLEAN }

QueueInit ==
    \E opt \in QueueOptions, icc \in 1..MaxClauses :
        InitState(opt, icc, "setup_queue")

\* run_deletion's call of setup_deletion_queue
QueueSetup ==
    /\ pc = "setup_queue"
    /\ Commit(setup_deletion_queue(Globals), "queued", last_cmd)
    /\ UNCHANGED << options, input_variable_count, input_clause_count, banner,
                    line_count, thread_vars, deletion_start,
                    cnf_weights, count_vars >>

QueueNext == QueueSetup

SpecQueue == QueueInit /\ [][QueueNext]_vars

(***************************************************************************)
(* The clause store and the RUP rule as the specification reads them       *)
(***************************************************************************)
\* the type of the slot of clause cid in a block list, "none" without a slot
TypeIn(blocks, cid) ==
    LET slots == { <<b, i>> \in (DOMAIN blocks) \X (1..(clause_last_id + MAX_GAP)) :
                      i <= Len(blocks[b].type) /\ blocks[b].start_id + i - 1 = cid }
    IN  IF slots = {} THEN "none"
        ELSE LET sl == CHOOSE x \in slots : TRUE IN blocks[sl[1]].type[sl[2]]

\* the literals of clause cid in the current store, in order; <<0>> stands
\* for a slot without literals (no slot, or padding)
LiteralsOf(cid) ==
    LET slots == { <<b, i>> \in (DOMAIN clause_blocks) \X (1..(clause_last_id + MAX_GAP)) :
                      i <= Len(clause_blocks[b].type)
                      /\ clause_blocks[b].start_id + i - 1 = cid }
    IN  IF slots = {} THEN <<0>>
        ELSE LET sl == CHOOSE x \in slots : TRUE
                 off == clause_blocks[sl[1]].offset[sl[2]]
                 ch == chunk_set[clause_blocks[sl[1]].chunk[sl[2]] + 1]
                 end == CHOOSE j \in (off + 1)..Len(ch) :
                           ch[j] = 0 /\ \A k \in (off + 1)..(j - 1) : ch[k] # 0
             IN  IF off < 0 THEN <<0>> ELSE SubSeq(ch, off + 1, end - 1)

Range(seq) == { seq[i] : i \in DOMAIN seq }

IsTautology(lits) == \E l \in Range(lits) : -l \in Range(lits)

\* unit propagation over the hint clauses in the given order, from the set
\* assumed of literals taken to be true: the position of the hint at which
\* every literal of the hint is false, or 0 when the list ends without one
RECURSIVE ConflictAt(_, _, _)
ConflictAt(assumed, hints, i) ==
    IF i > Len(hints) THEN 0
    ELSE LET lits == Range(LiteralsOf(hints[i]))
             open == { l \in lits : -l \notin assumed }
         IN  IF 0 \in lits THEN 0
             ELSE IF open = {} THEN i
             ELSE IF Cardinality(open) = 1 /\ open \cap assumed = {}
             THEN ConflictAt(assumed \cup open, hints, i + 1)
             ELSE IF skipping_rup THEN ConflictAt(assumed, hints, i + 1)
             ELSE 0

Negated(lits) == { -l : l \in Range(lits) }

SuccessBanners == {"FULL-PROOF SUCCESS", "CLAUSE DELETIONS VALID"}

\* the step reads one line of the CPOG file with command op
ReadsLine(op) ==
    pc = "read_cpog" /\ line_count' = line_count + 1 /\ last_cmd'.op = op

(***************************************************************************)
(* Claims                                                                  *)
(***************************************************************************)
\* C1: on a run that ends in success with a nonzero root and deletion
\* checking, every input clause 1..C was deleted by a d line whose check
\* passed, is a tautology, or was deleted by a reverse-implication run that
\* reached conflict at the root.
C1_EveryInputClauseJustified ==
    (pc = "count" /\ banner \in SuccessBanners /\ check_delete
        /\ ~declared_unsatisfiable /\ declared_root # 0)
    => \A cid \in 1..input_clause_count :
          \/ cid \in explicit_deleted
          \/ IsTautology(LiteralsOf(cid))
          \/ cid \in conflict_cids

\* C5: when the end of the CPOG file is passed with a formula not declared
\* unsatisfiable, the store holds a unit clause whose literal is the root
\* declared by the last r line.
C5_RootUnitAtClose ==
    (last_cmd.op = "EOF" /\ pc \in {"run_deletion", "report", "count"}
        /\ ~declared_unsatisfiable)
    => \E cid \in 1..clause_last_id : LiteralsOf(cid) = <<declared_root>>

\* C7: a d line naming an input clause that an earlier deletion already
\* turned into a hole ends the run with an error and is not counted as an
\* explicit deletion.
C7_SecondDeleteFails ==
    [][ (ReadsLine("d") /\ TypeIn(clause_blocks, last_cmd'.cid) = "unknown")
        => (pc' = "fail" /\ explicit_deletion_count' = explicit_deletion_count) ]_vars

\* the step has put the clause of an a or as line into the store
AddStored ==
    /\ TypeIn(clause_blocks', last_cmd'.cid) # "none"
    /\ TypeIn(clause_blocks, last_cmd'.cid) = "none"

Compatible ==
    ({"tseitin"} \X {"forward", "root", "input", "structural"})
    \cup ({"forward"} \X {"forward", "root"})
    \cup ({"input"} \X {"forward", "root", "input"})
    \cup ({"skolem", "root"} \X {"input"})
    \cup ({"structural", "disable"} \X {"forward", "root", "structural"})

\* the target type, the assumed literals and the hint types of the RUP
\* check of the line cmd, read in the state before the line
TargetOf(cmd) ==
    CASE cmd.op = "a" -> IF Len(cmd.toks) = 1 /\ cmd.toks[1] = declared_root
                         THEN "root" ELSE "forward"
      [] cmd.op = "d" -> "input"
      [] OTHER -> "structural"

AssumedOf(cmd) ==
    CASE cmd.op = "d" -> Negated(LiteralsOf(cmd.cid))
      [] cmd.op = "s" -> Range(cmd.toks)
      [] OTHER -> Negated(cmd.toks)

HintTypeOf(cmd, hint) ==
    IF cmd.op = "d" /\ hint = cmd.cid THEN "unknown" ELSE TypeIn(clause_blocks, hint)

\* some hint up to the conflict may not justify the target
BadHint(cmd) ==
    \E j \in 1..ConflictAt(AssumedOf(cmd), cmd.hints, 1) :
        <<HintTypeOf(cmd, cmd.hints[j]), TargetOf(cmd)>> \notin Compatible

RunsRup(cmd) ==
    CASE cmd.op \in {"a", "as"} -> check_add
      [] cmd.op = "d" -> check_delete /\ cmd.cid \in 1..input_clause_count
                             /\ ~IsTautology(LiteralsOf(cmd.cid))
      [] cmd.op = "s" -> TRUE
      [] OTHER -> FALSE

\* C6: a line whose RUP check succeeded used only hints whose type may
\* justify the target in the table of the specification; a hint that may
\* not makes the line fail even when the conflict was reached.
C6_HintTypesCompatible ==
    [][ (pc = "read_cpog" /\ line_count' = line_count + 1 /\ RunsRup(last_cmd')
            /\ pc' = "read_cpog")
        => ~BadHint(last_cmd') ]_vars

\* C6 witness: an a line reached the conflict with a hint that may not
\* justify its target, and the run failed
C6_Witness ==
    /\ pc = "fail" /\ error = "rup_run" /\ last_cmd.op = "a" /\ check_add
    /\ ConflictAt(AssumedOf(last_cmd), last_cmd.hints, 1) > 0
    /\ BadHint(last_cmd)

ProtectedTypes == {"tseitin", "disable", "skolem", "root"}

\* C8: a stored clause becomes UNKNOWN only by a d line naming it (an id
\* up to the input clause count), by the implicit deletion (an INPUT
\* clause), or by a D line naming it (a FORWARD or STRUCTURAL clause);
\* TSEITIN, DISABLE, SKOLEM and ROOT clauses keep their type, and a D line
\* naming a clause of another type, a hole or no clause fails.
C8_DeletionPaths ==
    [][ /\ \A cid \in 1..clause_last_id' :
             LET before == TypeIn(clause_blocks, cid)
                 after == TypeIn(clause_blocks', cid)
             IN  /\ (before \notin {"unknown", "none"} /\ after = "unknown")
                     => \/ ReadsLine("d") /\ cid = last_cmd'.cid
                              /\ cid <= input_clause_count
                        \/ ReadsLine("D") /\ cid \in Range(last_cmd'.toks)
                              /\ before \in {"forward", "structural"}
                        \/ last_cmd'.op = "EOF" /\ before = "input"
                              /\ pc \in {"read_cpog", "run_deletion"}
                 /\ before \in ProtectedTypes => after = before
        /\ (ReadsLine("D") /\ \E c \in Range(last_cmd'.toks) :
                                 TypeIn(clause_blocks, c) \notin {"forward", "structural"})
             => pc' = "fail" ]_vars

\* C8 witness: a D line naming a POG-defining or ROOT clause failed
C8_Witness ==
    /\ pc = "fail" /\ last_cmd.op = "D"
    /\ \E c \in Range(last_cmd.toks) : TypeIn(clause_blocks, c) \in ProtectedTypes

\* the step of an s line put a clause into the store
SumStored == clause_blocks' # clause_blocks

\* C4: the defining clauses of the node of an s line are stored only if unit
\* propagation from its two children over the hints reached a conflict,
\* with and without -A; when it did not, the line fails and none of the
\* defining clauses is in the store.
C4_SumMutexBeforeClauses ==
    [][ ReadsLine("s")
        => LET at == ConflictAt(Range(last_cmd'.toks), last_cmd'.hints, 1)
           IN  /\ SumStored => at > 0
               /\ (at = 0 /\ pc' # "crash") => (pc' = "fail" /\ ~SumStored) ]_vars

\* C4 witness: under -A an s line was accepted and its clauses stored
C4_Witness ==
    /\ pc = "read_cpog" /\ ~check_add /\ last_cmd.op = "s"
    /\ \A c \in last_cmd.cid..(last_cmd.cid + 2) : TypeIn(clause_blocks, c) = "tseitin"
    /\ ConflictAt(Range(last_cmd.toks), last_cmd.hints, 1) > 0

(***************************************************************************)
(* The POG as the specification reads it                                   *)
(***************************************************************************)
\* the ids of the declared nodes; every line has been read to its end when
\* the run is in none of the failed states
Declared == { n \in DOMAIN node_list : node_list[n].type # "none" }

NodeOf(id) == node_list[id - input_variable_count]

AcceptedNodes == { node_list[n].id : n \in Declared }

NodeChildren(id) == { l \in Range(NodeOf(id).children) : l > input_variable_count }

\* the nodes reached from id in at most k steps along child references
RECURSIVE ReachedFrom(_, _)
ReachedFrom(id, k) ==
    IF k = 0 THEN NodeChildren(id)
    ELSE LET r == ReachedFrom(id, k - 1)
         IN  r \cup UNION { NodeChildren(c) : c \in r }

Acyclic == \A id \in AcceptedNodes : id \notin ReachedFrom(id, Cardinality(AcceptedNodes))

\* asg: the input variables that are true.  The nodes that are true after
\* k rounds of evaluation from below
LitTrue(l, asg, nodes) ==
    IF IABS(l) <= input_variable_count
    THEN IF l > 0 THEN l \in asg ELSE -l \notin asg
    ELSE l \in nodes

RECURSIVE TrueNodes(_, _)
TrueNodes(asg, k) ==
    IF k = 0 THEN {}
    ELSE LET below == TrueNodes(asg, k - 1)
         IN  { id \in AcceptedNodes :
                  IF NodeOf(id).type = "sum"
                  THEN \E l \in Range(NodeOf(id).children) : LitTrue(l, asg, below)
                  ELSE \A l \in Range(NodeOf(id).children) : LitTrue(l, asg, below) }

RootTrue(asg) == LitTrue(declared_root, asg, TrueNodes(asg, Cardinality(AcceptedNodes)))

\* C2: when the reverse implication reported a conflict for an input clause
\* of an accepted POG without cycles, the declared root is false under every
\* assignment that makes all literals of the clause false.
C2_ReverseImplicationSound ==
    (pc \notin {"fail", "crash"} /\ Acyclic)
    => \A cid \in conflict_cids :
          \A asg \in SUBSET (1..input_variable_count) :
              (\A l \in Range(LiteralsOf(cid)) : ~LitTrue(l, asg, {})) => ~RootTrue(asg)

\* the variables under the child l of a node
ChildVars(l) ==
    IF IABS(l) <= input_variable_count THEN {IABS(l)}
    ELSE Range(NodeOf(l).dependency_list)

\* C9: the dependency set of every accepted PRODUCT node is the union of
\* the dependency sets of its node children and the variables of its literal
\* children, and these sets are pairwise disjoint.
C9_ProductDependencyDisjoint ==
    pc \notin {"fail", "crash"}
    => \A id \in AcceptedNodes :
          NodeOf(id).type = "product"
          => LET ch == NodeOf(id).children
             IN  /\ Range(NodeOf(id).dependency_list) = UNION { ChildVars(ch[i]) : i \in DOMAIN ch }
                 /\ \A i, j \in DOMAIN ch : i # j => ChildVars(ch[i]) \cap ChildVars(ch[j]) = {}

\* C10: every child of an accepted node that refers to a node refers to a
\* declared node with a strictly smaller id.
C10_ChildrenHaveSmallerIds ==
    pc \notin {"fail", "crash"}
    => \A id \in AcceptedNodes : \A c \in NodeChildren(id) : c \in AcceptedNodes /\ c < id

\* the literal children of a node over input variables that are not shown
ProjectionChildren(node) ==
    { l \in Range(node.children) :
         IABS(l) <= input_variable_count /\ ~show_variables[IABS(l)] }

\* C11: in projected mode, while the run has not failed, no product or sum
\* node with an id up to the declared root has a literal child over a
\* projection variable, and every child of a Skolem node is a literal over a
\* projection variable, wherever the r line stands among the node lines.
C11_ProjectionOnlyUnderSkolem ==
    (is_pkc /\ error = "")
    => \A n \in Declared :
          /\ (node_list[n].type \in {"product", "sum"} /\ node_list[n].id <= declared_root)
                => ProjectionChildren(node_list[n]) = {}
          /\ node_list[n].type = "skolem"
                => Range(node_list[n].children) = ProjectionChildren(node_list[n])

ClauseLines == {"a", "as", "p", "t", "s", "S"}

\* C12: clause ids are assigned in strictly increasing order over the whole
\* run: a line whose clause id is not above the last assigned id fails and
\* stores nothing, every id a step stores (from the CNF, from a and as, and
\* the defining clauses of p, s, S and t) is above the ids assigned before
\* the step, and no id is stored twice.
C12_ClauseIdsIncrease ==
    [][ /\ clause_last_id' >= clause_last_id
        /\ \A op \in ClauseLines :
              (ReadsLine(op) /\ last_cmd'.cid <= clause_last_id)
                  => (error' # "" /\ stored' = stored
                        /\ clause_last_id' = clause_last_id)
        /\ \A c \in stored' \ stored :
              clause_last_id < c.cid /\ c.cid <= clause_last_id'
        /\ \A c1, c2 \in stored' : c1.cid = c2.cid => c1 = c2 ]_vars

\* an a line and a p line with an id already assigned have failed in start_clause
C12_Witness ==
    /\ error = "start_clause"
    /\ last_cmd.op \in {"a", "p"}
    /\ last_cmd.cid <= clause_last_id
    /\ Cardinality(stored) > input_clause_count

StoredIds == { c.cid : c \in stored }

\* the ids that lie inside a block of the store
InBlocks ==
    { cid \in 0..(clause_last_id + 1) :
         \E b \in DOMAIN clause_blocks :
            /\ clause_blocks[b].start_id <= cid
            /\ cid < clause_blocks[b].start_id + clause_blocks[b].length }

LocatedLits(cid) ==
    LET loc == find_clause(Globals, cid)
    IN  IF loc.found /\ ~clause_locate_null(Globals, loc)
        THEN clause_locate(Globals, loc) ELSE <<0>>

Dequeued(r) ==
    { tj \in (DOMAIN threads) \X (1..Len(clause_queue)) :
        tj[2] <= Len(threads[tj[1]].took) /\ threads[tj[1]].took[tj[2]] = r }

QueuedRanges == { clause_queue[i] : i \in DOMAIN clause_queue }

\* the input clauses of type INPUT when the deletion phase starts
InputsAtStart ==
    { cid \in 1..input_clause_count :
        TypeIn(deletion_start.clause_blocks, cid) = "input" }

ThreadsJoined == threads # <<>> /\ pc = "report"

\* C15: with N deletion threads no range of the queue is dequeued by two
\* threads or twice, no thread works on a range that is not in the queue, and
\* once all threads are joined every range has been dequeued by exactly one
\* of them, every clause that was of type INPUT at the start of the phase is
\* deleted and the count of implicit deletions has grown by exactly their number
C15_EachRangeDequeuedOnce ==
    threads # <<>> =>
      /\ \A t \in DOMAIN threads : \A j \in DOMAIN threads[t].took :
            threads[t].took[j] \in QueuedRanges
      /\ \A r \in QueuedRanges : Cardinality(Dequeued(r)) <= 1
      /\ ThreadsJoined =>
            /\ \A r \in QueuedRanges : Cardinality(Dequeued(r)) = 1
            /\ InputsAtStart \subseteq deleted_ids
            /\ implicit_deletion_count
                  = deletion_start.implicit_deletion_count + Cardinality(InputsAtStart)

\* two threads are joined, each after it has dequeued one of the two ranges
C15_Witness ==
    /\ ThreadsJoined
    /\ Len(clause_queue) = 2
    /\ \E t, u \in DOMAIN threads :
          t # u /\ Len(threads[t].took) = 1 /\ Len(threads[u].took) = 1

\* C16: a thread holds the mutex of the queue only while it dequeues: a thread
\* that runs cpog_delete_range on the range it took has released queue_lock
C16_LockReleasedWhilePropagating ==
    \A t \in DOMAIN threads : threads[t].at = "delete_range" => queue_lock # t

InDeletionPhase == pc \in {"run_threads", "run_deletion"}

\* C17: no step of the implicit-deletion phase changes a clause slot (its
\* literals or its type), a node or a fanout list
C17_SharedStoresReadOnly ==
    [][InDeletionPhase =>
         UNCHANGED << clause_blocks, chunk_set, chunk_used, node_list,
                      neg_fanouts, pos_fanouts >>]_vars

\* the deletion phase of the same inputs run with -n 1: one range list, one
\* propagator, no other thread
SingleThreadRun ==
    run_deletion_loop([deletion_start EXCEPT
                          !.clause_queue = clause_ranges(input_clause_count, 1),
                          !.processed_count = 0,
                          !.prop = new_propagator(deletion_start)])

\* C18: for the CNF and CPOG read, the deletion phase of N threads ends in every
\* interleaving as the run with -n 1 does: in success with the same total of
\* implicit deletions, or in the failure of reverse implication
C18_VerdictDeterministic ==
    deletion_start # <<>> =>
      /\ pc = "report" =>
            /\ SingleThreadRun.g.error = ""
            /\ implicit_deletion_count = SingleThreadRun.g.implicit_deletion_count
      /\ (pc = "fail" /\ error = "rup_run_input") =>
            SingleThreadRun.g.error = "rup_run_input"

\* no node is its own child
NoSelfChild ==
    \A i \in 1..node_count : \A j \in DOMAIN node_list[i].children :
        node_list[i].children[j] # node_list[i].id

\* C19: with every setting of the thread limit, the one in force without -n
\* included, the end of the CPOG file computes a positive block size: the
\* division in setup_deletion_queue does not end the run
C19_BlockSizeComputed ==
    last_cmd.op = "EOF" => error # "SIGFPE"

(***************************************************************************)
(* The deletion queue                                                      *)
(***************************************************************************)
\* ceil(c / n): the least k with k * n >= c
CeilDiv(c, n) == CHOOSE k \in 0..c : k * n >= c /\ (k - 1) * n < c

Min(a, b) == IF a <= b THEN a ELSE b

RangeIds(r) == r.cid_min .. r.cid_max

\* C20: for N >= 1 threads and C >= 1 input clauses the queued ranges are
\* consecutive, pairwise disjoint and cover exactly the ids 1..C; no range is
\* longer than min(CLAUSE_DELETION_BLOCK, ceil(C/N)) and all but the last
\* have exactly that length
C20_RangesPartitionInput ==
    pc = "queued" =>
      LET q == clause_queue
          C == input_clause_count
          B == Min(CLAUSE_DELETION_BLOCK, CeilDiv(C, thread_limit))
      IN  /\ \A i \in 1..(Len(q) - 1) : q[i + 1].cid_min = q[i].cid_max + 1
          /\ \A i, j \in DOMAIN q : i # j => RangeIds(q[i]) \cap RangeIds(q[j]) = {}
          /\ UNION { RangeIds(q[i]) : i \in DOMAIN q } = 1..C
          /\ \A i \in DOMAIN q : Cardinality(RangeIds(q[i])) <= B
          /\ \A i \in 1..(Len(q) - 1) : Cardinality(RangeIds(q[i])) = B

\* more than 500 clauses: two ranges of CLAUSE_DELETION_BLOCK clauses,
\* less than ceil(C/N), and a shorter last one
C20_Witness ==
    /\ pc = "queued"
    /\ Len(clause_queue) = 3
    /\ CeilDiv(input_clause_count, thread_limit) > CLAUSE_DELETION_BLOCK
    /\ Cardinality(RangeIds(clause_queue[1])) = CLAUSE_DELETION_BLOCK
    /\ Cardinality(RangeIds(clause_queue[3])) < CLAUSE_DELETION_BLOCK

(***************************************************************************)
(* The phases of run()                                                     *)
(***************************************************************************)
\* READ_CNF, READ_CPOG, CLOSE_POG and IMPLICIT_DELETE, COUNT after the banner, DONE
PhaseOf(at) ==
    CASE at = "read_cnf" -> 1
      [] at = "read_cpog" -> 2
      [] at \in {"run_deletion", "run_threads"} -> 3
      [] at = "report" -> 4
      [] at = "count" -> 5
      [] at = "done" -> 6
      [] OTHER -> 0

\* the phases follow their order, implicit deletions are made only from the end
\* of the CPOG file on and with the root clause added, and a count is written
\* only after the deletion phase
PhaseOrderStep ==
    /\ PhaseOf(pc') # 0 => PhaseOf(pc) # 0 /\ PhaseOf(pc) <= PhaseOf(pc')
    /\ implicit_deletion_count' # implicit_deletion_count
          => last_cmd'.op = "EOF" /\ root_clause_added
    /\ (regular_count' # regular_count \/ weighted_count' # weighted_count)
          => pc = "count" /\ processed_count >= Len(clause_queue)

\* C21: the phases occur only in their order, implicit deletion starts only
\* after the whole CPOG file is read and the root condition checked, no count
\* is written before implicit deletion has finished, every step that does
\* not lead to a later phase leads to FAIL (exit 1), and FAIL is terminal: no
\* banner and no count is written from it
C21_PhaseOrder ==
    [][ /\ PhaseOrderStep
        /\ PhaseOf(pc') = 0 => pc' = "fail"
        /\ pc = "fail" => UNCHANGED << banner, regular_count, weighted_count >> ]_vars

(***************************************************************************)
(* The verdict and the counts                                              *)
(***************************************************************************)
\* the value of cpog_final_root
FinalRootLiteral == IF declared_unsatisfiable THEN 0 ELSE declared_root

\* C22: FULL-PROOF SUCCESS is written only by runs that check additions, and
\* for a nonzero root only by runs that also check deletions and have deleted
\* every input clause; a run with -A writes NOTHING CHECKED or CLAUSE
\* DELETIONS VALID, or no banner
C22_FullSuccessNeedsChecks ==
    /\ banner = "FULL-PROOF SUCCESS" =>
          /\ check_add
          /\ FinalRootLiteral # 0 =>
                /\ check_delete
                /\ explicit_deletion_count + implicit_deletion_count >= input_clause_count
    /\ ~check_add => banner \in {"", "NOTHING CHECKED", "CLAUSE DELETIONS VALID"}

\* full success for the root 4 of (1 2), additions and deletions checked
C22_Witness ==
    /\ banner = "FULL-PROOF SUCCESS" /\ FinalRootLiteral = 4
    /\ check_add /\ check_delete /\ implicit_deletion_count = 1

\* the run has passed the verdict without failing
VerdictPassed == pc \in {"count", "done"}

\* an a line has stored the empty clause
EmptyClauseAdded == \E c \in stored : c.lits = <<>> /\ c.type = "forward"

\* C23 as stated: a run on a formula declared unsatisfiable passes the verdict
\* only if an a line added the empty clause and its RUP check was made and
\* passed; otherwise it fails
C23_UnsatNeedsEmptyClause ==
    (declared_unsatisfiable /\ VerdictPassed) => (check_add /\ EmptyClauseAdded)

\* C23 amended: on a formula declared unsatisfiable a run that checks
\* additions passes the verdict only with FULL-PROOF SUCCESS and an empty
\* clause added by an a line, whose RUP check passed, and fails otherwise; a
\* run with -A writes NOTHING CHECKED; in both the deletion phase is not run
\* and the count written is 0
C23_UnsatVerdict ==
    (declared_unsatisfiable /\ VerdictPassed) =>
      /\ check_add => banner = "FULL-PROOF SUCCESS" /\ EmptyClauseAdded
      /\ ~check_add => banner = "NOTHING CHECKED"
      /\ implicit_deletion_count = 0 /\ clause_queue = <<>> /\ conflict_cids = {}
      /\ pc = "done" => regular_count = q25_from_32(0)

\* r 0 and the empty clause with the hints 1 2 on (1)(-1), additions checked
C23_Witness ==
    /\ declared_unsatisfiable /\ pc = "done" /\ check_add /\ check_delete
    /\ EmptyClauseAdded /\ banner = "FULL-PROOF SUCCESS"
    /\ regular_count = q25_from_32(0)

\* the value of a literal as the specification defines it, by recursion over
\* the children; depth bounds the recursion on a POG that is not acyclic
RECURSIVE RingValue(_, _, _)
RECURSIVE RingFold(_, _, _, _, _)
RingValue(lit, w, depth) ==
    LET var == IABS(lit)
        idx == var - input_variable_count
        positive ==
            IF var <= input_variable_count THEN w[var]
            ELSE IF depth = 0 \/ idx \notin DOMAIN node_list THEN q25_null
            ELSE IF node_list[idx].type = "skolem" THEN q25_from_32(1)
            ELSE IF node_list[idx].type = "product"
            THEN RingFold(node_list[idx].children, 1, w, depth - 1, TRUE)
            ELSE IF node_list[idx].type = "sum"
            THEN RingFold(node_list[idx].children, 1, w, depth - 1, FALSE)
            ELSE q25_null
    IN  IF lit < 0 THEN q25_one_minus(positive) ELSE positive

RingFold(children, i, w, depth, product) ==
    IF i > Len(children) THEN q25_from_32(IF product THEN 1 ELSE 0)
    ELSE IF product
    THEN q25_mul(RingValue(children[i], w, depth),
                 RingFold(children, i + 1, w, depth, product))
    ELSE q25_add(RingValue(children[i], w, depth),
                 RingFold(children, i + 1, w, depth, product))

HalfWeights == [v \in 1..input_variable_count |-> q25_scale(q25_from_32(1), -1)]

\* the declared root is a node of the POG
RootIsNode ==
    /\ ~declared_unsatisfiable
    /\ declared_root - input_variable_count \in DOMAIN node_list
    /\ node_list[declared_root - input_variable_count].type # "none"

\* variables counted by count_regular
CountedVariables ==
    IF is_pkc THEN Cardinality({v \in 1..input_variable_count : show_variables[v]})
    ELSE input_variable_count

\* the step is run()'s counting for a root that is a node
CountsRootNode == pc = "count" /\ ~weak_mode /\ RootIsNode

\* the counting step writes both counts from the recursively defined value of
\* the root and leaves every ring value cleared
CountsRingValue ==
    /\ pc' = "done"
    /\ regular_count'
         = q25_scale(RingValue(declared_root, HalfWeights, node_count), CountedVariables)
    /\ cnf_weights.wmc =>
          weighted_count'
            = q25_mul(RingValue(declared_root,
                                cnf_read_weights(cnf_weights.lines).input_weights,
                                node_count),
                      cnf_read_weights(cnf_weights.lines).rescale)
    /\ \A i \in DOMAIN node_list : RingValueOf(ring_value', i) = q25_null

\* C24: for a declared root node ring_evaluate returns its recursively
\* defined value, with w[v] for +v, 1 - w[v] for -v, the product (1 if
\* empty) for PRODUCT, the sum for SUM and 1 for SKOLEM, so that the regular
\* and the weighted count are written from it, and every ring value is
\* cleared after the pass
C24_RingEvaluate == [][CountsRootNode => CountsRingValue]_vars

\* every id from the first node id to the root is a declared node whose node
\* children have smaller ids
NodesContiguous ==
    \A id \in (input_variable_count + 1)..declared_root :
        /\ id - input_variable_count \in DOMAIN node_list
        /\ node_list[id - input_variable_count].type # "none"
        /\ \A j \in DOMAIN node_list[id - input_variable_count].children :
              IABS(node_list[id - input_variable_count].children[j]) < id

\* the regular count was written for a declared root
RegularCountWritten ==
    pc = "done" /\ regular_count # q25_null /\ ~declared_unsatisfiable

\* C25: the regular count is the ring value of the root with every input
\* weight 1/2, multiplied by 2^V, and by 2^(number of show variables) for a
\* projected formula
C25_RegularCount ==
    RegularCountWritten =>
        regular_count
          = q25_scale(RingValue(declared_root, HalfWeights, node_count), CountedVariables)

\* a projected count over fewer variables than the formula has, and not 0
C25_Witness ==
    /\ RegularCountWritten
    /\ is_pkc
    /\ CountedVariables < input_variable_count
    /\ regular_count.n > 0
    /\ banner = "FULL-PROOF SUCCESS"

\* C26: an a or as line whose clause holds a literal together with its
\* complement ends the run with an error, and the clause is not stored
C26_SelfContradictoryRejected ==
    [][ ((ReadsLine("a") \/ ReadsLine("as")) /\ IsTautology(last_cmd'.toks))
        => (pc' = "fail" /\ stored' = stored) ]_vars

\* the literals of the literal set
Assigned ==
    { l \in { v * sgn : v \in DOMAIN lset_array, sgn \in {1, -1} } :
         lset_array[IABS(l)] = (IF l > 0 THEN lset_generation ELSE -lset_generation) }

\* unit propagation on a clause with literals lits under the literals assigned
UnitClass(lits, assigned) ==
    LET open == { l \in lits : -l \notin assigned }
    IN  IF open = {} THEN [what |-> "conflict", unit |-> 0]
        ELSE IF Cardinality(open) = 1 /\ open \cap assigned = {}
        THEN [what |-> "unit", unit |-> CHOOSE l \in open : TRUE]
        ELSE [what |-> "stall", unit |-> 0]

\* the hints in their order from the literals assumed: where the run of the
\* hints ends ("conflict", "stall", "missing" for a hint that is no clause,
\* "none" at the end of the list) and the literals assigned by then
RECURSIVE RupOutcome(_, _, _, _)
RupOutcome(assumed, hints, i, lenient) ==
    IF i > Len(hints) THEN [what |-> "none", at |-> i, assumed |-> assumed]
    ELSE IF LiteralsOf(hints[i]) = <<0>>
    THEN [what |-> "missing", at |-> i, assumed |-> assumed]
    ELSE LET class == UnitClass(Range(LiteralsOf(hints[i])), assumed)
         IN  IF class.what = "conflict"
             THEN [what |-> "conflict", at |-> i, assumed |-> assumed]
             ELSE IF class.what = "unit"
             THEN RupOutcome(assumed \cup {class.unit}, hints, i + 1, lenient)
             ELSE IF lenient THEN RupOutcome(assumed, hints, i + 1, lenient)
             ELSE [what |-> "stall", at |-> i, assumed |-> assumed]

\* rup_unit_prop on every clause of the store under the current literal set
UnitPropClassified ==
    \A cid \in 1..clause_last_id :
        (LiteralsOf(cid) # <<0>> /\ find_clause(Globals, cid).found
            /\ ~clause_locate_null(Globals, find_clause(Globals, cid)))
        => LET unit == rup_unit_prop(Globals, find_clause(Globals, cid))
               class == UnitClass(Range(LiteralsOf(cid)), Assigned)
           IN  /\ unit = RUP_CONFLICT <=> class.what = "conflict"
               /\ unit = RUP_STALL <=> class.what = "stall"
               /\ class.what = "unit" => unit = class.unit

\* the step reads an a or as line whose clause passes on to rup_run
AddRunsRup ==
    /\ ReadsLine("a") \/ ReadsLine("as")
    /\ check_add
    /\ ~IsTautology(last_cmd'.toks)
    /\ \A l \in Range(last_cmd'.toks) :
          IABS(l) <= input_variable_count \/ IABS(l) <= variable_limit

\* hints of the types that may justify a clause added by an a line
ForwardHints(hints, n) ==
    \A i \in 1..n : TypeIn(clause_blocks, hints[i]) \in {"input", "forward", "tseitin"}

\* a stalled hint ends a strict run with an error; a lenient run passes over
\* it with the literal set as it was, up to the conflict
StalledHintStep ==
    AddRunsRup =>
        LET o == RupOutcome(Negated(last_cmd'.toks), last_cmd'.hints, 1, skipping_rup)
        IN  /\ o.what \in {"stall", "none", "missing"} => pc' = "fail"
            /\ o.what = "conflict" => Assigned' = o.assumed
            /\ (o.what = "conflict" /\ last_cmd'.op = "a"
                   /\ ForwardHints(last_cmd'.hints, o.at)) => pc' = "read_cpog"

\* C27: rup_unit_prop gives conflict exactly when every literal of the hint
\* is falsified, the unit literal exactly when one distinct literal is
\* unassigned and the others are falsified, and a stall otherwise; a stalled
\* hint fails a strict RUP check, and a lenient one skips it with the
\* literal set unchanged
C27_UnitPropagation == []UnitPropClassified /\ [][StalledHintStep]_vars

\* a lenient run accepted a clause over a hint at which a strict run stalls
C27_Witness ==
    /\ last_cmd.op = "a" /\ check_add /\ skipping_rup
    /\ pc = "read_cpog" /\ error = ""
    /\ RupOutcome(Negated(last_cmd.toks), last_cmd.hints, 1, FALSE).what = "stall"
    /\ \E c \in stored : c.cid = last_cmd.cid /\ c.lits = last_cmd.toks
    /\ \E cid \in 1..clause_last_id :
          /\ Cardinality(Range(LiteralsOf(cid))) < Len(LiteralsOf(cid))
          /\ UnitClass(Range(LiteralsOf(cid)), Assigned).what = "stall"

\* the hints of the line cmd up to the n-th may justify its target
HintsCompatible(cmd, n) ==
    \A j \in 1..n : <<TypeIn(clause_blocks, cmd.hints[j]), TargetOf(cmd)>> \in Compatible

\* the step checks an a or as line whose hints reach the conflict before
\* the end of the list, with compatible types up to there
EarlyConflict ==
    /\ AddRunsRup
    /\ LET o == RupOutcome(Negated(last_cmd'.toks), last_cmd'.hints, 1, skipping_rup)
       IN  /\ o.what = "conflict"
           /\ o.at < Len(last_cmd'.hints)
           /\ HintsCompatible(last_cmd', o.at)

\* the line is accepted with its clause stored, and rup_run has consumed the
\* hints up to the conflict and no more
EarlyConflictAccepted ==
    /\ pc' = "read_cpog"
    /\ rup_steps'
         = RupOutcome(Negated(last_cmd'.toks), last_cmd'.hints, 1, skipping_rup).at
    /\ \E c \in stored' \ stored : c.cid = last_cmd'.cid /\ c.lits = last_cmd'.toks

\* C28: a conflict before the end of the hint list is accepted when the
\* hints consumed so far are type-compatible; the hint ids after it are not
\* looked up, need not exist and are not type-checked
C28_EarlyConflict == [][EarlyConflict => EarlyConflictAccepted]_vars

\* a line accepted although a hint after the conflict is no clause
C28_Witness ==
    /\ last_cmd.op \in {"a", "as"} /\ check_add
    /\ pc = "read_cpog" /\ error = ""
    /\ rup_steps < Len(last_cmd.hints)
    /\ \E j \in (rup_steps + 1)..Len(last_cmd.hints) : LiteralsOf(last_cmd.hints[j]) = <<0>>
    /\ \E c \in stored : c.cid = last_cmd.cid /\ c.lits = last_cmd.toks

\* the step reads an a or as line with a literal whose variable is neither
\* an input variable nor one of the nodes declared so far
AddsUndeclaredVariable ==
    /\ ReadsLine("a") \/ ReadsLine("as")
    /\ \E l \in Range(last_cmd'.toks) : IABS(l) > input_variable_count + node_count

\* C29: variable_limit is the number of input variables plus the number of
\* declared nodes, and an a or as line with a literal whose variable is
\* beyond it ends the run with an error, its clause not stored
C29_VariableLimit ==
    /\ [](pc = "read_cpog" => variable_limit = input_variable_count + node_count)
    /\ [][AddsUndeclaredVariable => (pc' = "fail" /\ stored' = stored)]_vars

\* a node is falsified under the literals assumed when all children of a
\* SUM, or one child of a PRODUCT or SKOLEM, are falsified: a literal child
\* by its complement among the assumed, a node child by being falsified
RECURSIVE NodeFalsified(_, _, _)
NodeFalsified(id, assumed, depth) ==
    LET idx == id - input_variable_count
        ChildFalsified(lit) ==
            IF IABS(lit) <= input_variable_count THEN -lit \in assumed
            ELSE lit > 0 /\ NodeFalsified(lit, assumed, depth - 1)
    IN  IF depth = 0 \/ idx \notin DOMAIN node_list THEN FALSE
        ELSE IF node_list[idx].type = "sum"
        THEN \A i \in DOMAIN node_list[idx].children :
                ChildFalsified(node_list[idx].children[i])
        ELSE IF node_list[idx].type \in {"product", "skolem"}
        THEN \E i \in DOMAIN node_list[idx].children :
                ChildFalsified(node_list[idx].children[i])
        ELSE FALSE

\* the negation of input clause cid falsifies the root
RootFalsifiedBy(cid) ==
    \E c \in stored :
        /\ c.cid = cid /\ c.type = "input"
        /\ NodeFalsified(declared_root, Negated(c.lits), Len(node_list) + 1)

\* C30: in reverse implication a SUM fires exactly when all its children are
\* falsified, whatever its degree, and a PRODUCT or SKOLEM as soon as one
\* child is: an input clause reaches the conflict at the root only when its
\* negation falsifies the root, and the deletion phase fails for want of a
\* conflict only when some input clause does not falsify the root
C30_SumFiresWhenAllFalsified ==
    (last_cmd.op = "EOF" /\ pc \in {"run_deletion", "report", "fail"})
    => /\ \A cid \in conflict_cids : RootFalsifiedBy(cid)
       /\ error = "rup_run_input"
             => \E cid \in 1..input_clause_count : ~RootFalsifiedBy(cid)

\* the smallest element of a nonempty set of integers
MinOf(S) == CHOOSE x \in S : \A y \in S : x <= y

\* C31: priority_next removes and returns the smallest node id in the queue,
\* and returns -1 exactly when the queue is empty, whatever calls of
\* priority_add and priority_next came before
C31_PopsSmallest ==
    LET q == prop.priority_queue
        nx == priority_next(prop)
    IN  /\ nx.var = -1 <=> q = <<>>
        /\ q # <<>> =>
              /\ nx.var = MinOf(Range(q))
              /\ Range(nx.p.priority_queue) = Range(q) \ {nx.var}
              /\ Len(nx.p.priority_queue) = Len(q) - 1

\* a full queue whose smallest id was pushed after larger ones were popped
\* and pushed again: the last leaf of the heap is smaller than its sibling
C31_Witness ==
    /\ pc = "run_deletion"
    /\ Len(prop.priority_queue) = MaxHeapNodes
    /\ prop.priority_queue[3] < prop.priority_queue[2]
    /\ prop.priority_queue[5] < prop.priority_queue[4]

\* propagator p is as new_propagator left it: nothing queued, nothing counted
PropagatorFresh(p) ==
    /\ p.priority_queue = <<>>
    /\ \A i \in DOMAIN p.node_event_count : p.node_event_count[i] = 0

\* C32: when a deletion thread calls cpog_delete_range for a range that is one
\* input clause, that is at the start of rup_run_input, the priority queue of
\* its propagator is empty and every event counter of it is zero
C32_PropagatorFreshAtStart ==
    \A t \in DOMAIN threads :
        threads[t].at = "delete_range" /\ threads[t].cid_min = threads[t].cid_max
            => PropagatorFresh(threads[t].prop)

\* the defining clauses the specification gives the node of a p or s line
DefiningClauses(cmd, root) ==
    LET n == cmd.nid
        k == Len(cmd.toks)
    IN  IF cmd.op = "p"
        THEN { [cid |-> cmd.cid,
                type |-> IF k = 0 /\ n = root THEN "root" ELSE "tseitin",
                lits |-> <<n>> \o [i \in 1..k |-> -cmd.toks[i]]] }
             \cup { [cid |-> cmd.cid + i, type |-> "tseitin",
                     lits |-> <<-n, cmd.toks[i]>>] : i \in 1..k }
        ELSE { [cid |-> cmd.cid, type |-> "tseitin",
                lits |-> <<-n, cmd.toks[1], cmd.toks[2]>>],
               [cid |-> cmd.cid + 1, type |-> "tseitin", lits |-> <<n, -cmd.toks[1]>>],
               [cid |-> cmd.cid + 2, type |-> "tseitin", lits |-> <<n, -cmd.toks[2]>>] }

\* the step reads a p or s line that is accepted
AcceptsNodeLine ==
    /\ ReadsLine("p") \/ ReadsLine("s")
    /\ error' = ""
    /\ pc' = "read_cpog"

\* C33: an accepted p or s line stores exactly the defining clauses of its
\* node, with consecutive ids from the id of the line, in the order and with
\* the types of the specification, and no other clause
C33_DefiningClauses ==
    [][AcceptsNodeLine =>
          /\ stored' \ stored = DefiningClauses(last_cmd', declared_root)
          /\ stored \subseteq stored'
          /\ \A c \in DefiningClauses(last_cmd', declared_root) :
                /\ TypeIn(clause_blocks', c.cid) = c.type
                /\ TypeIn(clause_blocks, c.cid) = "none"
          /\ clause_last_id' = last_cmd'.cid + Len(last_cmd'.toks)
          /\ \A cid \in 1..clause_last_id' :
                cid \notin { c.cid : c \in DefiningClauses(last_cmd', declared_root) }
                    /\ TypeIn(clause_blocks, cid) # TypeIn(clause_blocks', cid)
                    => /\ TypeIn(clause_blocks, cid) = "none"
                       /\ TypeIn(clause_blocks', cid) = "unknown"]_vars

\* an s line was accepted after a p line of a product with two children
C33_Witness ==
    /\ pc = "read_cpog"
    /\ last_cmd.op = "s"
    /\ error = ""
    /\ \E i \in DOMAIN node_list :
          node_list[i].type = "product" /\ Len(node_list[i].children) = 2

\* the input clauses that are tautologies
TautologyIds == { cid \in 1..input_clause_count : IsTautology(LiteralsOf(cid)) }

\* when the work queue is run no tautology is an input clause of the store any
\* more, and no reverse implication has ever been run for one
TautologiesCleared ==
    /\ pc \in {"run_deletion", "run_threads"} =>
          \A cid \in TautologyIds : /\ TypeIn(clause_blocks, cid) = "unknown"
                                   /\ cid \in deleted_ids
    /\ conflict_cids \cap TautologyIds = {}

\* a d line for a tautology of the formula that is still in the store is
\* accepted, whatever its hints, without a run of rup_run
DeletesTautology ==
    /\ ReadsLine("d")
    /\ last_cmd'.cid \in TautologyIds
    /\ TypeIn(clause_blocks, last_cmd'.cid) = "input"
    => /\ error' = ""
       /\ TypeIn(clause_blocks', last_cmd'.cid) = "unknown"
       /\ explicit_deletion_count' = explicit_deletion_count + 1
       /\ rup_steps' = rup_steps

\* C34: a tautological input clause never goes through reverse implication:
\* cpog_final_root deletes every one still present, with no conflict asked
\* for, before the work queue is run, and a d line deletes one without
\* consulting its hints
C34_TautologiesSkipped == []TautologiesCleared /\ [][DeletesTautology]_vars

\* the work queue is about to run and the tautology (1 -1), which no d line
\* named, is deleted already
C34_Witness ==
    /\ pc = "run_deletion"
    /\ TautologyIds # {}
    /\ TautologyIds \cap explicit_deleted = {}
    /\ TautologyIds \subseteq deleted_ids
    /\ processed_count = 0

\* lset_get_lit(var) before and after the step
LitBefore(var) == lset_get_lit(Globals, var)

LitAfter(var) ==
    lset_get_lit([Globals EXCEPT !.lset_generation = lset_generation',
                                 !.lset_array = lset_array'], var)

LsetVariables == 1..12

\* C35: after lset_clear lset_get_lit returns 0 for every variable; a call
\* of lset_add_lit that is not refused (the opposite literal is not in the
\* set) makes lset_get_lit return its literal for its variable, and no call
\* changes what lset_get_lit returns for any other variable; so between
\* clears lset_get_lit(v) is the literal added for v since the last clear.
\* This holds across the wrap-around of the generation counter.
C35_LiteralSet ==
    [][ /\ last_cmd'.op = "lset_clear" => \A v \in LsetVariables : LitAfter(v) = 0
        /\ last_cmd'.op = "lset_add_lit" =>
              LET lit == last_cmd'.toks[1]
              IN  /\ LitAfter(IABS(lit)) =
                        IF LitBefore(IABS(lit)) = -lit THEN -lit ELSE lit
                  /\ \A v \in LsetVariables \ {IABS(lit)} : LitAfter(v) = LitBefore(v)
      ]_vars

\* the step reads a line whose RUP check is run
RupLine ==
    /\ \E op \in {"a", "as", "s", "d"} : ReadsLine(op)
    /\ RunsRup(last_cmd')

\* one of the first n hints of the line names a slot of type UNKNOWN: a
\* deleted clause, a padding hole, or the target of the d line itself
UnknownHint(cmd, n) ==
    \E j \in 1..n :
        /\ j <= Len(cmd.hints)
        /\ TypeIn(clause_blocks, cmd.hints[j]) # "none"
        /\ HintTypeOf(cmd, cmd.hints[j]) = "unknown"

\* C36 as stated: a RUP check whose hint list names a slot of type UNKNOWN
\* anywhere ends in failure
C36_UnknownHintAnywhereFails ==
    [][RupLine /\ UnknownHint(last_cmd', Len(last_cmd'.hints)) => error' # ""]_vars

\* C36: a RUP check (a, as, s, d) that examines a hint whose slot has type
\* UNKNOWN, that is one up to the hint at which the conflict is reached, ends
\* in failure; in particular a d line that names its own target there fails
C36_UnknownHintFails ==
    [][RupLine /\ UnknownHint(last_cmd', rup_steps') => error' # ""]_vars

\* a d line failed on the hint that names its own target, an input clause
\* that is no tautology
C36_Witness ==
    /\ last_cmd.op = "d"
    /\ last_cmd.cid \in 1..input_clause_count
    /\ ~IsTautology(LiteralsOf(last_cmd.cid))
    /\ rup_steps >= 1
    /\ last_cmd.hints[rup_steps] = last_cmd.cid
    /\ error = "rup_run"

\* no clause id from cid on is found in the store of g
NotYetStored(g, cid) ==
    \A id \in cid..(cid + MAX_GAP + 3) : ~find_clause(g, id).found

\* the store in which the RUP check of the a or as line cmd runs: after
\* lset_clear and start_clause
AddCheckStore(cmd) == start_clause(lset_clear(Globals), cmd.cid, input_clause_count)

\* the s line cmd gets as far as its mutex check
ReachesMutexCheck(cmd) ==
    With(node_new(Globals, "sum", cmd.nid, cmd.cid), LAMBDA g1 :
        /\ g1.error = ""
        /\ cpog_add_sum_children(g1, cmd.nid, cmd.toks, 1, <<>>, FALSE).g.error = "")

\* the RUP check of an a or as line runs in a store without its id and
\* without any larger one
AddCheckedBeforeStored ==
    /\ ReadsLine("a") \/ ReadsLine("as")
    /\ check_add
    /\ AddCheckStore(last_cmd').error = ""
    => NotYetStored(AddCheckStore(last_cmd'), last_cmd'.cid)

\* C37 as stated: also the mutex check of every s line runs in a store
\* without the id of the line and without any larger one
C37_NoIdFromCidOnInStore ==
    [][ /\ AddCheckedBeforeStored
        /\ ReadsLine("s") /\ ReachesMutexCheck(last_cmd')
              => NotYetStored(Globals, last_cmd'.cid) ]_vars

\* C37: the RUP check of an a or as line with clause id cid, and the mutex
\* check of an s line with a clause id cid above the last id assigned, run
\* in a store in which find_clause fails for cid and for every larger id;
\* a line that is accepted has examined no hint from cid on
C37_NoCircularJustification ==
    [][ /\ AddCheckedBeforeStored
        /\ ReadsLine("s") /\ ReachesMutexCheck(last_cmd')
                /\ last_cmd'.cid > clause_last_id
              => NotYetStored(Globals, last_cmd'.cid)
        /\ RupLine /\ last_cmd'.op # "d" /\ error' = ""
              => \A j \in 1..rup_steps' : last_cmd'.hints[j] < last_cmd'.cid ]_vars

\* an s line whose only hint is its own clause id got as far as the mutex
\* check and failed there
C37_Witness ==
    /\ last_cmd.op = "s"
    /\ last_cmd.hints = <<last_cmd.cid>>
    /\ last_cmd.cid = clause_last_id + 1
    /\ error = "rup_run"
    /\ \E i \in DOMAIN node_list :
          node_list[i].id = last_cmd.nid /\ Len(node_list[i].children) = 2

\* the propagators at the head of rup_run_input's loop when thread t runs it
\* for the one input clause of its range
LoopHeads(t) ==
    LET g == [Globals EXCEPT !.prop = threads[t].prop]
        loc == find_clause(g, threads[t].cid_min)
    IN  rup_run_input_heads(
            rup_run_input_seed(clause_delete(g, loc).g, clause_locate(g, loc), 1),
            FALSE, {})

\* a thread is about to run rup_run_input for the one clause of its range
StartsReverseImplication(t) ==
    /\ threads[t].at = "delete_range"
    /\ threads[t].cid_min = threads[t].cid_max
    /\ TypeIn(clause_blocks, threads[t].cid_min) = "input"

NoRepeats(seq) == \A i, j \in DOMAIN seq : seq[i] = seq[j] => i = j

\* no node twice in the queue, queued nodes have a counter above 0, counters
\* stay in 0..2 and the queue fits the node_count slots allocated for it
QueueBounded(p) ==
    /\ NoRepeats(p.priority_queue)
    /\ \A i \in DOMAIN p.priority_queue :
          /\ var_to_index(p.priority_queue[i]) \in DOMAIN p.node_event_count
          /\ p.node_event_count[var_to_index(p.priority_queue[i])] > 0
    /\ \A i \in DOMAIN p.node_event_count : p.node_event_count[i] \in 0..2
    /\ Len(p.priority_queue) <= node_count

\* a node with a counter above 0 is in the queue
CountedAreQueued(p) ==
    \A i \in DOMAIN p.node_event_count :
        p.node_event_count[i] > 0 =>
            \E j \in DOMAIN p.priority_queue : var_to_index(p.priority_queue[j]) = i

\* C38: at every pass of the event loop of a reverse implication a node id
\* occurs at most once in the priority queue, a node is in the queue exactly
\* when its event counter is not zero, every counter is in 0..2 and the
\* queue is no longer than the number of POG nodes
C38_QueuedOnceIffCounted ==
    \A t \in DOMAIN threads :
        StartsReverseImplication(t) =>
            \A p \in LoopHeads(t) : QueueBounded(p) /\ CountedAreQueued(p)

\* the part of C38 that holds
QueueBoundedAtHeads ==
    \A t \in DOMAIN threads :
        StartsReverseImplication(t) => \A p \in LoopHeads(t) : QueueBounded(p)

\* thread t is between pthread_mutex_lock and pthread_mutex_unlock in
\* next_deletion
InNextDeletion(t) == threads[t].at \in {"test", "advance", "delete_range"}

\* the holder of queue_lock is the one thread inside next_deletion, and the
\* holder of print_lock is inside data_printf and waits for nothing
LocksExclude ==
    /\ \A t \in DOMAIN threads : InNextDeletion(t) <=> queue_lock = t
    /\ \A t, u \in DOMAIN threads :
          threads[t].at = "delete_range" /\ threads[u].at = "delete_range" => t = u
    /\ \A t \in DOMAIN threads : threads[t].at = "printing" <=> print_lock = t

\* a step of the deletion threads that writes processed_count, a type tag
\* of the clause store or implicit_deletion_count is a step of the thread
\* that holds queue_lock
WritesUnderQueueLock ==
    /\ pc = "run_threads"
    /\ \/ processed_count' # processed_count
       \/ clause_blocks' # clause_blocks
       \/ implicit_deletion_count' # implicit_deletion_count
       \/ conflict_cids' # conflict_cids
    => \E t \in DOMAIN threads :
          /\ queue_lock = t
          /\ threads'[t] # threads[t]
          /\ \A u \in DOMAIN threads \ {t} : threads'[u] = threads[u]

\* thread t is not blocked: it waits for no mutex, or the mutex it waits for
\* is free (err_printf inside cpog_delete_range may wait for print_lock)
CanMove(t) ==
    CASE threads[t].at = "lock" -> mutex_available(queue_lock)
      [] threads[t].at = "test" -> TRUE
      [] threads[t].at = "advance" -> processed_count < Len(clause_queue)
      [] threads[t].at = "delete_range" -> mutex_available(print_lock)
      [] threads[t].at = "print" -> mutex_available(print_lock)
      [] threads[t].at = "printing" -> TRUE
      [] OTHER -> FALSE

\* some deletion thread can take a step, or all have returned
ThreadsCanMove ==
    pc = "run_threads" =>
        \/ \E t \in DOMAIN threads : CanMove(t)
        \/ \A t \in DOMAIN threads : threads[t].at = "done"

\* C39: during implicit deletion with worker threads every write to
\* processed_count, to the type tags of the clause store and to
\* implicit_deletion_count is made by the thread that holds queue_lock, no
\* two workers are inside cpog_delete_range at once, and with print_lock
\* taken only after queue_lock the workers never block each other for good
C39_SharedWritesLocked ==
    [](LocksExclude /\ ThreadsCanMove) /\ [][WritesUnderQueueLock]_vars

\* one worker is inside cpog_delete_range, having taken the second range,
\* while the other, which deleted the first, waits for queue_lock
C39_Witness ==
    /\ pc = "run_threads"
    /\ \E t, u \in DOMAIN threads :
          /\ threads[t].at = "delete_range"
          /\ threads[u].at = "lock"
          /\ threads[u].took # <<>>
          /\ processed_count = 2

StrictlyIncreasing(ils) == \A i \in 1..(Len(ils) - 1) : ils[i] < ils[i + 1]

\* the node lines read so far defined a node
NodeLinesAccepted == pc = "read_cpog" /\ error = "" /\ node_count > 0

\* C40: after every accepted p, s, S or t line the dependency list of every
\* node is strictly increasing: sorted and without a repeated variable
C40_DependencyListsIncreasing ==
    NodeLinesAccepted =>
        \A n \in DOMAIN node_list :
            node_list[n].type # "none" => StrictlyIncreasing(node_list[n].dependency_list)

NonDecreasing(ils) == \A i \in 1..(Len(ils) - 1) : ils[i] <= ils[i + 1]

\* the dependency list of every node is sorted, and a variable repeats in it
\* only below a sum that has two literals of that variable as arguments
DependencyListsSorted ==
    NodeLinesAccepted =>
        \A n \in DOMAIN node_list :
            node_list[n].type # "none" =>
                /\ NonDecreasing(node_list[n].dependency_list)
                /\ StrictlyIncreasing(node_list[n].dependency_list)
                   \/ \E m \in 1..n :
                         /\ node_list[m].type = "sum"
                         /\ \E i, j \in DOMAIN node_list[m].children :
                               /\ i # j
                               /\ IABS(node_list[m].children[i]) = IABS(node_list[m].children[j])
                               /\ IABS(node_list[m].children[i]) <= input_variable_count

====
